---- MODULE Spec2Model ----
(***************************************************************************)
(* A model of anki-cards: the Deck Namer, the image resolver, the Card     *)
(* Extractor and the Schema Model validation.                              *)
(*                                                                         *)
(* Text is a sequence of lexemes.  A lexeme is a run of characters that    *)
(* the program's patterns and separators treat as a unit ("<img",          *)
(* "src=\"", "http://", "::", "|", a name).  Concatenation of text is \o   *)
(* and a separator is a lexeme of its own, so that joining, searching and  *)
(* replacing are computed on the text and not assumed.                     *)
(*                                                                         *)
(* A path is a sequence of components from the filesystem root; a          *)
(* component is text (<<"basics", ".md">> is the file name basics.md).     *)
(***************************************************************************)
EXTENDS Integers, Sequences, FiniteSets, TLC

VARIABLES
    \* --- calculate_deck_name(root_dir, filepath, **kwargs)
    root_dir,            \* the scan root, a path
    filepath,            \* the document, a path
    kwargs,              \* keyword arguments the caller adds to the call
    deck_pc,             \* "call" | "returned" | "raised"
    deck_result          \* the text returned, or the exception raised

deckVars == <<root_dir, filepath, kwargs, deck_pc, deck_result>>

VARIABLES
    \* --- process_field_for_images(field_content, md_file_dir)
    field_items,         \* the markup the field was written as (its <img> tags)
    field_content,       \* the field's text, as the function receives it
    md_file_dir,         \* the directory of the document, a path
    disk,                \* the regular files that exist, as absolute paths
    img_pc,              \* "call" | "returned"
    processed_content,   \* the text returned
    media_files          \* the list of media paths returned

imgVars == <<field_items, field_content, md_file_dir, disk, img_pc,
             processed_content, media_files>>

VARIABLES
    \* --- AnkiModelDefinition(**model_data)
    model_data,          \* the parsed definition handed to the constructor
    schema_pc,           \* "call" | "returned" | "raised"
    model_def,           \* <<the validated model>>, or <<>> while there is none
    validation_errors,   \* the errors of the ValidationError raised
    \* --- load_and_validate_model(model_path)
    model_path,          \* what lies at the path: its kind and its content
    load_pc,             \* "call" | "returned" | "raised"
    load_raised          \* the exception raised to the caller, or <<>>

schemaVars == <<model_data, schema_pc, model_def, validation_errors,
                model_path, load_pc, load_raised>>

VARIABLES
    \* --- find_anki_cards_in_file(filepath, root_dir, model_def, **kwargs)
    doc,                 \* the document: whether it can be read, and its blocks
    ex_pc,               \* "call" | "loop" | "fields" | "card" | "except" |
                         \* "returned" | "raised"
    match_num,           \* the number of blocks the loop has gone through
    raw_card_data,       \* the dict raw_card_data of the block at hand
    map_items,           \* the items of yaml_field_map the inner loop has left
    card_fields,         \* the dict card_fields
    card_media,          \* the members of the list card_media
    processed_ok,        \* the flag processed_ok
    cards,               \* the list cards
    all_media_for_file,  \* the set all_media_for_file
    file_media,          \* the media list returned
    ex_raised,           \* the exception that reached the caller, or "none"
    hash_seed,           \* the process's string hash seed (PYTHONHASHSEED)
    run,                 \* 1 in the first process execution, 2 in the second
    first_run            \* the guid_basis strings the first execution returned

blockVars == <<raw_card_data, map_items, card_fields, card_media, processed_ok>>

extractVars == <<doc, ex_pc, match_num, blockVars, cards, all_media_for_file,
                 file_media, ex_raised, hash_seed, run, first_run>>

VARIABLES
    \* --- _main(args) and generate_anki_package(...)
    entry,               \* the function called: "_main" | "generate_anki_package"
    root_path,           \* what lies at args.notes_directory: "dir" | "file" | "absent"
    md_files,            \* list(root_path.rglob("*.md")): each a path and a document
    main_pc,             \* "load" | "root" | "files" | "package" | "done" |
                         \* "exited" | "raised"
    exit_code,           \* <<the argument of sys.exit>>, or <<>>
    file_idx,            \* the number of files the loop has taken up
    all_cards,           \* the list all_cards
    all_media,           \* the set all_media
    card_data_list,      \* generate_anki_package's argument card_data_list
    pkg_media_files,     \* generate_anki_package's argument media_files
    card_idx,            \* the number of cards the loop of the package has taken up
    decks,               \* the dict decks: the deck names in order, each with its id
    output_file,         \* <<the package written at the output path>>, or <<>>
    write_ok,            \* whether write_to_file succeeds at the output path
    main_raised,         \* the exception that left the function called, or "none"
    first_decks          \* the dict decks of the first process execution

runVars == <<entry, root_path, md_files, main_pc, exit_code, file_idx,
             all_cards, all_media, card_data_list, pkg_media_files, card_idx,
             decks, output_file, write_ok, main_raised, first_decks>>

vars == <<deckVars, imgVars, schemaVars, extractVars, runVars>>

-----------------------------------------------------------------------------
(* Bounds of the model *)

\* the longest directory chain of a scan root, and below a scan root
MaxDepth == 2

\* the most attributes the <img> tags of one field have together
MaxFieldAttrs == 2

\* the most fields and the most templates of a model definition
MaxFields == 3
MaxTemplates == 2

\* the most blocks of a document
MaxBlocks == 2

-----------------------------------------------------------------------------
(* Text and paths *)

RECURSIVE Join(_, _)
\* sep.join(parts): the parts' text with the separator lexemes between them
Join(parts, sep) ==
    IF parts = <<>> THEN <<>>
    ELSE IF Len(parts) = 1 THEN parts[1]
    ELSE parts[1] \o sep \o Join(Tail(parts), sep)

\* the sequences over S of length at most n
SeqUpTo(S, n) == UNION {[1..k -> S] : k \in 0..n}

IsPrefix(p, s) == Len(p) <= Len(s) /\ SubSeq(s, 1, Len(p)) = p

\* pathlib: PurePath.name, the last component ("" for the filesystem root)
PathName(path) == IF path = <<>> THEN <<>> ELSE path[Len(path)]

\* pathlib: PurePath.parent
PathParent(path) == IF path = <<>> THEN <<>> ELSE SubSeq(path, 1, Len(path) - 1)

\* pathlib: filepath.relative_to(root_dir); ValueError when root_dir is no prefix
RelativeTo(path, root) ==
    IF IsPrefix(root, path)
    THEN [ok |-> TRUE, parts |-> SubSeq(path, Len(root) + 1, Len(path))]
    ELSE [ok |-> FALSE, parts |-> <<>>]

\* str(path) of a relative path: its components joined by "/"
RelPathStr(parts) == IF parts = <<>> THEN <<".">> ELSE Join(parts, <<"/">>)

-----------------------------------------------------------------------------
(* Deck Namer: main.py calculate_deck_name *)

DECK_SEP == <<"::">>

\* the keyword parameters the signature of calculate_deck_name declares
calculate_deck_name_params == {}

\* calculate_deck_name with the slice [:-1] of line 34 lost: the file name
\* becomes a deck segment
calculate_deck_name_keeps_filename(root, file) ==
    LET relative_path == RelativeTo(file, root) IN
    IF ~relative_path.ok THEN [exc |-> "ValueError", value |-> <<>>]
    ELSE [exc |-> "none",
          value |-> Join(<<PathName(root)>> \o relative_path.parts, DECK_SEP)]

\* the body of calculate_deck_name; relative_to raises ValueError outside root
calculate_deck_name(root, file) ==
    LET relative_path == RelativeTo(file, root) IN
    IF ~relative_path.ok THEN [exc |-> "ValueError", value |-> <<>>]
    ELSE LET rel == relative_path.parts
             parts == <<PathName(root)>> \o
                      (IF rel = <<>> THEN <<>> ELSE SubSeq(rel, 1, Len(rel) - 1))
         IN  [exc |-> "none",
              value |-> IF parts # <<>> THEN Join(parts, DECK_SEP) ELSE PathName(root)]

\* a call of calculate_deck_name with keyword arguments kw: Python raises
\* TypeError for a keyword the signature does not declare, before the body runs
call_calculate_deck_name(root, file, kw) ==
    IF ~(kw \subseteq calculate_deck_name_params)
    THEN [exc |-> "TypeError", value |-> <<>>]
    ELSE calculate_deck_name(root, file)

-----------------------------------------------------------------------------
(* The inputs of the Deck Namer *)

DirNames == {<<"notes">>, <<"py">>}
FileNames == {<<"basics", ".md">>, <<"v1", ".2", ".md">>}

\* directory chains, the filesystem root <<>> included
DirChains == SeqUpTo(DirNames, MaxDepth)

\* what a caller may add to the positional arguments: nothing, or the
\* include-filename flag of the tests (tests/test_main.py:96), false or true
KwargChoices == {{}, {"include_filename=False"}, {"include_filename=True"}}

\* the variables of the parts that do not run
RunIdle ==
    /\ entry = "none"
    /\ root_path = "absent"
    /\ md_files = <<>>
    /\ main_pc = "idle"
    /\ exit_code = <<>>
    /\ file_idx = 0
    /\ all_cards = <<>>
    /\ all_media = {}
    /\ card_data_list = <<>>
    /\ pkg_media_files = <<>>
    /\ card_idx = 0
    /\ decks = <<>>
    /\ output_file = <<>>
    /\ write_ok = TRUE
    /\ main_raised = "none"
    /\ first_decks = <<>>

LoadIdle ==
    /\ model_path = <<>>
    /\ load_pc = "idle"
    /\ load_raised = <<>>

SchemaIdle ==
    /\ model_data = <<>>
    /\ schema_pc = "idle"
    /\ model_def = <<>>
    /\ validation_errors = <<>>
    /\ LoadIdle

ExtractIdle ==
    /\ doc = <<>>
    /\ ex_pc = "idle"
    /\ match_num = 0
    /\ raw_card_data = <<>> /\ map_items = <<>> /\ card_fields = <<>>
    /\ card_media = {} /\ processed_ok = TRUE
    /\ cards = <<>>
    /\ all_media_for_file = {}
    /\ file_media = <<>>
    /\ ex_raised = "none"
    /\ hash_seed = 0
    /\ run = 0
    /\ first_run = <<>>

ImgIdle ==
    /\ field_items = <<>>
    /\ field_content = <<>>
    /\ md_file_dir = <<>>
    /\ disk = {}
    /\ img_pc = "idle"
    /\ processed_content = <<>>
    /\ media_files = <<>>

DeckInit ==
    /\ RunIdle /\ ImgIdle /\ SchemaIdle /\ ExtractIdle
    /\ root_dir \in DirChains
    /\ \E sub \in DirChains, f \in FileNames, inside \in BOOLEAN :
          filepath = (IF inside THEN root_dir ELSE <<<<"elsewhere">>>>) \o sub \o <<f>>
    /\ kwargs \in KwargChoices
    /\ deck_pc = "call"
    /\ deck_result = <<>>

\* the call of calculate_deck_name and its outcome
CallCalculateDeckName ==
    /\ deck_pc = "call"
    /\ LET r == call_calculate_deck_name(root_dir, filepath, kwargs) IN
       /\ deck_pc' = IF r.exc = "none" THEN "returned" ELSE "raised"
       /\ deck_result' = IF r.exc = "none" THEN r.value ELSE <<r.exc>>
    /\ UNCHANGED <<root_dir, filepath, kwargs>>
    /\ UNCHANGED <<imgVars, schemaVars, extractVars, runVars>>

DeckNext == CallCalculateDeckName

SpecDeck == DeckInit /\ [][DeckNext]_vars

-----------------------------------------------------------------------------
(* Image resolver: main.py IMG_SRC_RE and process_field_for_images *)

\* re.IGNORECASE: a lexeme with its letters lowered
Lower(lex) ==
    CASE lex = "<IMG" -> "<img"
      [] lex = "SRC=" -> "src="
      [] lex = "HTTP://" -> "http://"
      [] lex = "HTTPS://" -> "https://"
      [] lex = "DATA:" -> "data:"
      [] OTHER -> lex

\* \s
IsSpace(lex) == lex \in {" ", "\n"}

\* the index of the first lexeme equal to lex at or after position from, 0 if none
RECURSIVE IndexFrom(_, _, _)
IndexFrom(s, lex, from) ==
    IF from > Len(s) THEN 0
    ELSE IF s[from] = lex THEN from
    ELSE IndexFrom(s, lex, from + 1)

\* the negative lookahead (?!https?://|data:) at position p of s
LookaheadLocal(s, p) ==
    ~(p <= Len(s) /\ Lower(s[p]) \in {"http://", "https://", "data:"})

\* IMG_SRC_RE anchored at position i, with the literal src=" taken at position j:
\* <img \s+ [^>]* src=" (?!...) ([^"]+) " [^>]* >
\* the positions of the group and of the closing ">", or ok = FALSE
ImgMatchVia(s, i, j) ==
    LET q == IndexFrom(s, "\"", j + 2)       \* the quote that ends the group
        e == IF q = 0 THEN 0 ELSE IndexFrom(s, ">", q + 1)
        ok == /\ i + 1 <= Len(s)
              /\ Lower(s[i]) = "<img"
              /\ IsSpace(s[i + 1])
              /\ j >= i + 2 /\ j + 1 <= Len(s)
              /\ \A k \in (i + 2)..(j - 1) : s[k] # ">"
              /\ Lower(s[j]) = "src=" /\ s[j + 1] = "\""
              /\ LookaheadLocal(s, j + 2)
              /\ q > j + 2
              /\ e # 0
    IN  [ok |-> ok, from |-> i, src_from |-> j + 2, src_to |-> q - 1, to |-> e]

\* IMG_SRC_RE anchored at position i: [^>]* is greedy, so of the places where
\* the rest of the pattern succeeds the literal src=" is taken at the last
ImgMatchAt(s, i) ==
    LET js == IF Lower(s[i]) = "<img"
              THEN {j \in (i + 2)..Len(s) : ImgMatchVia(s, i, j).ok}
              ELSE {}
    IN
    IF js = {} THEN [ok |-> FALSE, from |-> i, src_from |-> 0, src_to |-> 0, to |-> 0]
    ELSE ImgMatchVia(s, i, CHOOSE j \in js : \A k \in js : k <= j)

\* pathlib.Path(text): the components between the "/" lexemes, "." and empty
\* components dropped; absolute when the text starts with "/"
RECURSIVE SplitPath(_, _)
SplitPath(text, cur) ==
    IF text = <<>> THEN (IF cur = <<>> \/ cur = <<".">> THEN <<>> ELSE <<cur>>)
    ELSE IF Head(text) = "/"
         THEN (IF cur = <<>> \/ cur = <<".">> THEN <<>> ELSE <<cur>>)
              \o SplitPath(Tail(text), <<>>)
         ELSE SplitPath(Tail(text), Append(cur, Head(text)))

ParsePath(text) ==
    [absolute |-> text # <<>> /\ Head(text) = "/", parts |-> SplitPath(text, <<>>)]

\* md_file_dir / img_path: an absolute right operand replaces the left one
JoinPath(dir, p) == IF p.absolute THEN p.parts ELSE dir \o p.parts

\* Path.resolve() on a filesystem without symbolic links: ".." steps up
RECURSIVE Resolve(_, _)
Resolve(parts, acc) ==
    IF parts = <<>> THEN acc
    ELSE IF Head(parts) = <<"..">>
         THEN Resolve(Tail(parts), PathParent(acc))
         ELSE Resolve(Tail(parts), Append(acc, Head(parts)))

\* str(path) of an absolute path
AbsPathStr(path) == <<"/">> \o Join(path, <<"/">>)

\* the first place at or after from where sub occurs in s, 0 if none
RECURSIVE FindSub(_, _, _)
FindSub(s, sub, from) ==
    IF from + Len(sub) - 1 > Len(s) THEN 0
    ELSE IF SubSeq(s, from, from + Len(sub) - 1) = sub THEN from
    ELSE FindSub(s, sub, from + 1)

\* str.replace(old, new, 1): the first occurrence of old replaced
ReplaceFirst(s, old, new) ==
    LET at == FindSub(s, old, 1) IN
    IF at = 0 THEN s
    ELSE SubSeq(s, 1, at - 1) \o new \o SubSeq(s, at + Len(old), Len(s))

\* replace_src(match): the replacement text and the media path recorded
replace_src(tag, original_src, dir, files) ==
    LET absolute_img_path == Resolve(JoinPath(dir, ParsePath(original_src)), <<>>) IN
    IF absolute_img_path \in files
    THEN [text |-> ReplaceFirst(tag,
                        <<"src=", "\"">> \o original_src \o <<"\"">>,
                        <<"src=", "\"">> \o PathName(absolute_img_path) \o <<"\"">>),
          found |-> {AbsPathStr(absolute_img_path)}]
    ELSE [text |-> tag, found |-> {}]

\* IMG_SRC_RE.sub(replace_src, field_content) from position pos on: the text
\* and the set of the media paths found
RECURSIVE ImgSub(_, _, _, _)
ImgSub(s, pos, dir, files) ==
    IF pos > Len(s) THEN [text |-> <<>>, found |-> {}]
    ELSE LET m == ImgMatchAt(s, pos) IN
         IF m.ok
         THEN LET r == replace_src(SubSeq(s, m.from, m.to),
                                   SubSeq(s, m.src_from, m.src_to), dir, files)
                  rest == ImgSub(s, m.to + 1, dir, files)
              IN  [text |-> r.text \o rest.text, found |-> r.found \cup rest.found]
         ELSE LET rest == ImgSub(s, pos + 1, dir, files)
              IN  [text |-> <<s[pos]>> \o rest.text, found |-> rest.found]

\* process_field_for_images without the order of its list: (text, set(found))
process_field_for_images(content, dir, files) == ImgSub(content, 1, dir, files)

\* list(set(...)): the lists that hold each element of S once, in any order
ListsOfSet(S) ==
    {l \in [1..Cardinality(S) -> S] : \A x \in S : \E i \in DOMAIN l : l[i] = x}

-----------------------------------------------------------------------------
(* The inputs of the image resolver *)

\* attribute names as they are written, and attribute values
AttrNames == {<<"src=">>, <<"SRC=">>, <<"data-", "src=">>, <<"alt=">>}
AttrValues == {<<"a.png">>, <<"img", "/", "b.png">>,
               <<"http://", "h", "/", "b.png">>, <<"data:", "x">>}
Attrs == [name : AttrNames, value : AttrValues]

\* the text of one attribute and of one tag
RenderAttr(a) == <<" ">> \o a.name \o <<"\"">> \o a.value \o <<"\"">>

RECURSIVE RenderAttrs(_)
RenderAttrs(as) ==
    IF as = <<>> THEN <<>> ELSE RenderAttr(Head(as)) \o RenderAttrs(Tail(as))

RenderTag(as) == <<"<img">> \o RenderAttrs(as) \o <<">">>

\* the text of a field: its tags, each after a word of plain text
RECURSIVE RenderField(_)
RenderField(items) ==
    IF items = <<>> THEN <<"end">>
    ELSE <<"see", " ">> \o RenderTag(Head(items)) \o <<" ">> \o RenderField(Tail(items))

\* the fields whose tags have at most n attributes together, each tag at least one
RECURSIVE FieldsWithAttrs(_)
FieldsWithAttrs(n) ==
    IF n = 0 THEN {<<>>}
    ELSE {<<>>} \cup
         UNION {{<<as>> \o rest : as \in [1..k -> Attrs], rest \in FieldsWithAttrs(n - k)}
                : k \in 1..n}

NotesDir == <<<<"notes">>>>
ImageFiles == {NotesDir \o <<<<"a.png">>>>, NotesDir \o <<<<"img">>, <<"b.png">>>>}

DeckIdle ==
    /\ root_dir = <<>>
    /\ filepath = <<>>
    /\ kwargs = {}
    /\ deck_pc = "idle"
    /\ deck_result = <<>>

ImgInit ==
    /\ RunIdle /\ DeckIdle /\ SchemaIdle /\ ExtractIdle
    /\ field_items \in FieldsWithAttrs(MaxFieldAttrs)
    /\ field_content = RenderField(field_items)
    /\ md_file_dir = NotesDir
    /\ disk \in SUBSET ImageFiles
    /\ img_pc = "call"
    /\ processed_content = <<>>
    /\ media_files = <<>>

\* process_field_for_images(field_content, md_file_dir) and its two results
ProcessFieldForImages ==
    /\ img_pc = "call"
    /\ LET r == process_field_for_images(field_content, md_file_dir, disk) IN
       /\ processed_content' = r.text
       /\ media_files' \in ListsOfSet(r.found)
    /\ img_pc' = "returned"
    /\ UNCHANGED <<field_items, field_content, md_file_dir, disk>>
    /\ UNCHANGED <<deckVars, schemaVars, extractVars, runVars>>

ImgNext == ProcessFieldForImages

SpecImages == ImgInit /\ [][ImgNext]_vars

-----------------------------------------------------------------------------
(* Schema Model: model_from_yaml.py AnkiModelDefinition *)

\* str.lower() of a field name
LowerName(name) ==
    CASE name \in {"Tags", "TAGS"} -> "tags"
      [] name \in {"SourceFile", "Sourcefile"} -> "sourcefile"
      [] OTHER -> name

\* the names the template check always allows (lines 62-69 and 80)
BUILTIN_FIELDS == {"FrontSide", "Tags", "Type", "Deck", "Subdeck", "Card"}

\* TEMPLATE_FIELD_RE anchored at position i of a format string:
\* \{\{ ([#/^]?) ([^}]+?) \}\}  -- the name is the text up to the first "}}",
\* after the marker when a name is left behind it
TemplateMatchAt(s, i) ==
    LET close == IndexFrom(s, "}}", i + 1)
        marked == /\ i + 1 <= Len(s)
                  /\ s[i + 1] \in {"#", "/", "^"}
                  /\ close > i + 2
        from == IF marked THEN i + 2 ELSE i + 1
        ok == /\ s[i] = "{{"
              /\ close > from
              /\ \A k \in from..(close - 1) : s[k] # "}"
    IN  [ok |-> ok, name |-> IF ok THEN SubSeq(s, from, close - 1) ELSE <<>>,
         to |-> close]

\* {match.group(2) for match in TEMPLATE_FIELD_RE.finditer(fmt)} from pos on
RECURSIVE TemplateRefs(_, _)
TemplateRefs(s, pos) ==
    IF pos > Len(s) THEN {}
    ELSE LET m == TemplateMatchAt(s, pos) IN
         IF m.ok THEN {m.name} \cup TemplateRefs(s, m.to + 1)
         ELSE TemplateRefs(s, pos + 1)

\* the names a format string uses that are neither builtin nor declared
MissingRefs(fmt, fields) ==
    (TemplateRefs(fmt, 1) \ {<<b>> : b \in BUILTIN_FIELDS})
        \ {<<fields[i]>> : i \in DOMAIN fields}

\* check_id_positive with the comparison v < 0: an id of 0 passes
check_id_positive_accepts_zero(v) ==
    IF v < 0
    THEN <<[loc |-> "id", msg |-> "Model ID must be a positive integer"]>>
    ELSE <<>>

\* @field_validator("id") check_id_positive: the errors it raises
check_id_positive(v) ==
    IF v <= 0
    THEN <<[loc |-> "id", msg |-> "Model ID must be a positive integer"]>>
    ELSE <<>>

\* @field_validator("fields", "templates") check_not_empty: the errors it raises
check_not_empty(loc, v) ==
    IF v = <<>>
    THEN <<[loc |-> loc, msg |-> "Fields and templates list cannot be empty"]>>
    ELSE <<>>

\* the template check that looks at the question side only
RECURSIVE check_template_fields_exist_qfmt_only(_, _, _)
check_template_fields_exist_qfmt_only(templates, fields, i) ==
    IF fields = <<>> \/ i > Len(templates) THEN <<>>
    ELSE IF MissingRefs(templates[i].qfmt, fields) # {}
         THEN <<[loc |-> "qfmt", msg |-> "uses undefined fields",
                 names |-> MissingRefs(templates[i].qfmt, fields)]>>
    ELSE check_template_fields_exist_qfmt_only(templates, fields, i + 1)

\* @model_validator check_template_fields_exist: the first template and side
\* that uses an undefined name raises
RECURSIVE check_template_fields_exist(_, _, _)
check_template_fields_exist(templates, fields, i) ==
    IF fields = <<>> \/ i > Len(templates) THEN <<>>
    ELSE IF MissingRefs(templates[i].qfmt, fields) # {}
         THEN <<[loc |-> "qfmt", msg |-> "uses undefined fields",
                 names |-> MissingRefs(templates[i].qfmt, fields)]>>
    ELSE IF MissingRefs(templates[i].afmt, fields) # {}
         THEN <<[loc |-> "afmt", msg |-> "uses undefined fields",
                 names |-> MissingRefs(templates[i].afmt, fields)]>>
    ELSE check_template_fields_exist(templates, fields, i + 1)

\* next(f.name for f in fields if f.name.lower() == "tags")
FirstTagsField(fields) ==
    fields[CHOOSE i \in DOMAIN fields :
              /\ LowerName(fields[i]) = "tags"
              /\ \A k \in 1..(i - 1) : LowerName(fields[k]) # "tags"]

\* the synthesis that maps tags to the field named exactly "Tags"
set_default_yaml_field_map_exact_tags(fields, given) ==
    LET synthesized ==
            <<<<"q", fields[1]>>, <<"a", fields[2]>>>> \o
            (IF \E i \in DOMAIN fields : fields[i] = "Tags"
             THEN <<<<"tags", "Tags">>>> ELSE <<>>)
        map == IF given.none THEN synthesized ELSE given.map
        missing_mapped == {map[i][2] : i \in DOMAIN map}
                              \ {fields[i] : i \in DOMAIN fields}
    IN  IF given.none /\ Len(fields) < 2
        THEN [map |-> <<>>,
              errors |-> <<[loc |-> "model",
                            msg |-> "Cannot set default q/a mapping"]>>]
        ELSE IF missing_mapped # {}
        THEN [map |-> map,
              errors |-> <<[loc |-> "model",
                            msg |-> "yaml_field_map contains fields not defined",
                            names |-> missing_mapped]>>]
        ELSE [map |-> map, errors |-> <<>>]

\* the validator without the check that the mapped fields exist
set_default_yaml_field_map_unchecked(fields, given) ==
    IF given.none /\ Len(fields) < 2
    THEN [map |-> <<>>,
          errors |-> <<[loc |-> "model", msg |-> "Cannot set default q/a mapping"]>>]
    ELSE [map |-> IF given.none
                  THEN <<<<"q", fields[1]>>, <<"a", fields[2]>>>> \o
                       (IF \E i \in DOMAIN fields : LowerName(fields[i]) = "tags"
                        THEN <<<<"tags", FirstTagsField(fields)>>>> ELSE <<>>)
                  ELSE given.map,
          errors |-> <<>>]

\* @model_validator set_default_yaml_field_map: the map (pairs in the dict's
\* insertion order) and the errors it raises
set_default_yaml_field_map(fields, given) ==
    LET synthesized ==
            <<<<"q", fields[1]>>, <<"a", fields[2]>>>> \o
            (IF \E i \in DOMAIN fields : LowerName(fields[i]) = "tags"
             THEN <<<<"tags", FirstTagsField(fields)>>>> ELSE <<>>)
        map == IF given.none THEN synthesized ELSE given.map
        missing_mapped == {map[i][2] : i \in DOMAIN map}
                              \ {fields[i] : i \in DOMAIN fields}
    IN  IF given.none /\ Len(fields) < 2
        THEN [map |-> <<>>,
              errors |-> <<[loc |-> "model",
                            msg |-> "Cannot set default q/a mapping"]>>]
        ELSE IF missing_mapped # {}
        THEN [map |-> map,
              errors |-> <<[loc |-> "model",
                            msg |-> "yaml_field_map contains fields not defined",
                            names |-> missing_mapped]>>]
        ELSE [map |-> map, errors |-> <<>>]

\* AnkiModelDefinition(**data): pydantic runs the field validators of every
\* field, in the order the fields are declared, and collects their errors;
\* the model validators run, in the order they are defined, only when no
\* field failed, and the first that raises ends the validation
model_validate(data) ==
    LET field_errors == check_id_positive(data.id)
                        \o check_not_empty("fields", data.fields)
                        \o check_not_empty("templates", data.templates)
        template_errors == check_template_fields_exist(data.templates, data.fields, 1)
        mapped == set_default_yaml_field_map(data.fields, data.yaml_field_map)
        errors == IF field_errors # <<>> THEN field_errors
                  ELSE IF template_errors # <<>> THEN template_errors
                  ELSE mapped.errors
    IN  [ok |-> errors = <<>>,
         errors |-> errors,
         model |-> IF errors # <<>> THEN <<>>
                   ELSE <<[id |-> data.id, name |-> data.name, fields |-> data.fields,
                           templates |-> data.templates,
                           yaml_field_map |-> mapped.map]>>]

-----------------------------------------------------------------------------
(* The inputs of the Schema Model *)

FieldNamePool == {"Front", "Back", "Tags", "TAGS"}

TemplatePool ==
    {[name |-> "Card 1", qfmt |-> <<"{{", "Front", "}}">>,
      afmt |-> <<"{{", "FrontSide", "}}", "<hr>", "{{", "Back", "}}">>],
     [name |-> "Card 2", qfmt |-> <<"{{", "#", "Front", "}}", "{{", "Front", "}}",
                                   "{{", "/", "Front", "}}">>,
      afmt |-> <<"{{", "Tags", "}}">>],
     [name |-> "Card 3", qfmt |-> <<"{{", "Front", "}}">>,
      afmt |-> <<"{{", "^", "Extra", "}}">>],
     [name |-> "Card 4", qfmt |-> <<"{{", "type:", "Front", "}}">>,
      afmt |-> <<"{{", "Deck", "}}", "{{", "Missing", "}}">>]}

\* yaml_field_map as given: None, or a dict as its pairs in insertion order
FieldMapPool ==
    {[none |-> TRUE, map |-> <<>>],
     [none |-> FALSE, map |-> <<>>],
     [none |-> FALSE, map |-> <<<<"q", "Front">>, <<"a", "Back">>>>],
     [none |-> FALSE, map |-> <<<<"a", "Back">>, <<"tags", "Tags">>>>],
     [none |-> FALSE, map |-> <<<<"q", "Front">>, <<"a", "Answer">>>>]}

ModelIds == {-1, 0, 1234567890}

ModelData ==
    [id : ModelIds, name : {"Test Model"},
     fields : SeqUpTo(FieldNamePool, MaxFields),
     templates : SeqUpTo(TemplatePool, MaxTemplates),
     yaml_field_map : FieldMapPool]

SchemaInit ==
    /\ RunIdle /\ DeckIdle /\ ImgIdle /\ ExtractIdle
    /\ model_data \in ModelData
    /\ schema_pc = "call"
    /\ model_def = <<>>
    /\ validation_errors = <<>>
    /\ LoadIdle

\* AnkiModelDefinition(**model_data): the model, or the ValidationError
ConstructModel ==
    /\ schema_pc = "call"
    /\ LET r == model_validate(model_data) IN
       /\ schema_pc' = IF r.ok THEN "returned" ELSE "raised"
       /\ model_def' = r.model
       /\ validation_errors' = r.errors
    /\ UNCHANGED <<model_data, model_path, load_pc, load_raised>>
    /\ UNCHANGED <<deckVars, imgVars, extractVars, runVars>>

SchemaNext == ConstructModel

SpecSchema == SchemaInit /\ [][SchemaNext]_vars

-----------------------------------------------------------------------------
(* The loader: model_from_yaml.py load_and_validate_model *)

\* AnkiModelDefinition.model_validate(model_data) for what yaml.safe_load may
\* return: no dict, a dict without fields and templates, a whole definition
model_validate_loaded(content) ==
    CASE content.kind = "non_dict" ->
            [ok |-> FALSE, model |-> <<>>,
             errors |-> <<[loc |-> "model",
                           msg |-> "Input should be a valid dictionary"]>>]
      [] content.kind = "dict_missing" ->
            [ok |-> FALSE, model |-> <<>>,
             errors |-> check_id_positive(content.data.id)
                        \o <<[loc |-> "fields", msg |-> "Field required"],
                              [loc |-> "templates", msg |-> "Field required"]>>]
      [] content.kind = "dict" -> model_validate(content.data)

\* the loader that logs a failed validation and returns the definition as read
load_and_validate_model_lenient(path) ==
    IF path.kind # "file"
    THEN [pc |-> "raised", model |-> <<>>, errors |-> <<>>, data |-> <<>>,
          raised |-> [type |-> "FileNotFoundError",
                      msg |-> "Model definition file not found", detail |-> <<>>]]
    ELSE IF path.content.kind = "unreadable"
    THEN [pc |-> "raised", model |-> <<>>, errors |-> <<>>, data |-> <<>>,
          raised |-> [type |-> "OSError", msg |-> "", detail |-> <<>>]]
    ELSE IF path.content.kind = "yaml_error"
    THEN [pc |-> "raised", model |-> <<>>, errors |-> <<>>, data |-> <<>>,
          raised |-> [type |-> "ValueError", msg |-> "Invalid YAML in model file",
                      detail |-> <<path.content.error>>]]
    ELSE LET r == model_validate_loaded(path.content)
         IN  IF ~r.ok /\ path.content.kind # "dict"
             THEN [pc |-> "raised", model |-> <<>>, errors |-> r.errors,
                   data |-> path.content,
                   raised |-> [type |-> "ValueError", msg |-> "Invalid model definition",
                               detail |-> r.errors]]
             ELSE [pc |-> "returned",
                   model |-> IF r.ok THEN r.model
                             ELSE <<[id |-> path.content.data.id,
                                     name |-> path.content.data.name,
                                     fields |-> path.content.data.fields,
                                     templates |-> path.content.data.templates,
                                     yaml_field_map |-> path.content.data.yaml_field_map.map]>>,
                   errors |-> <<>>, data |-> path.content, raised |-> <<>>]

\* lines 120-152: is_file, open and safe_load, model_validate, and the handlers
\* that wrap YAMLError and ValidationError in ValueError and re-raise the rest
load_and_validate_model(path) ==
    IF path.kind # "file"
    THEN [pc |-> "raised", model |-> <<>>, errors |-> <<>>, data |-> <<>>,
          raised |-> [type |-> "FileNotFoundError",
                      msg |-> "Model definition file not found", detail |-> <<>>]]
    ELSE IF path.content.kind = "unreadable"
    THEN [pc |-> "raised", model |-> <<>>, errors |-> <<>>, data |-> <<>>,
          raised |-> [type |-> "OSError", msg |-> "", detail |-> <<>>]]
    ELSE IF path.content.kind = "yaml_error"
    THEN [pc |-> "raised", model |-> <<>>, errors |-> <<>>, data |-> <<>>,
          raised |-> [type |-> "ValueError", msg |-> "Invalid YAML in model file",
                      detail |-> <<path.content.error>>]]
    ELSE LET r == model_validate_loaded(path.content)
         IN  IF ~r.ok
             THEN [pc |-> "raised", model |-> <<>>, errors |-> r.errors,
                   data |-> path.content,
                   raised |-> [type |-> "ValueError", msg |-> "Invalid model definition",
                               detail |-> r.errors]]
             ELSE [pc |-> "returned", model |-> r.model, errors |-> <<>>,
                   data |-> path.content, raised |-> <<>>]

\* what may lie at the path of the definition
ModelFileContents ==
    {[kind |-> "unreadable"],
     [kind |-> "yaml_error", error |-> "while parsing a flow node"],
     [kind |-> "non_dict"],
     [kind |-> "dict_missing", data |-> [id |-> -1, name |-> "Invalid"]]}
    \cup {[kind |-> "dict", data |-> d] : d \in ModelData}

ModelPaths ==
    {[kind |-> "absent"], [kind |-> "dir"]}
    \cup {[kind |-> "file", content |-> c] : c \in ModelFileContents}

LoadInit ==
    /\ RunIdle /\ DeckIdle /\ ImgIdle /\ ExtractIdle
    /\ model_data = <<>> /\ schema_pc = "idle"
    /\ model_def = <<>> /\ validation_errors = <<>>
    /\ model_path \in ModelPaths
    /\ load_pc = "call"
    /\ load_raised = <<>>

LoadAndValidateModel ==
    /\ load_pc = "call"
    /\ \E r \in {load_and_validate_model(model_path)} :
          /\ load_pc' = r.pc
          /\ load_raised' = r.raised
          /\ model_data' = r.data
          /\ model_def' = r.model
          /\ validation_errors' = r.errors
    /\ UNCHANGED <<model_path, schema_pc>>
    /\ UNCHANGED <<deckVars, imgVars, extractVars, runVars>>

LoadNext == LoadAndValidateModel

SpecLoad == LoadInit /\ [][LoadNext]_vars

-----------------------------------------------------------------------------
(* Card Extractor: main.py find_anki_cards_in_file *)

(* A value yaml.safe_load returns is [t, v]: a string (v its text), None,   *)
(* an int (v its decimal text), a list of strings or a set of strings (v    *)
(* its members).  A block's parsed body is [kind, data]: kind "error" when  *)
(* safe_load raises YAMLError, "seq" or "scalar" when it returns no         *)
(* mapping, "map" with data the dict.                                       *)
PyNone == [t |-> "none", v |-> <<>>]
PyStr(text) == [t |-> "str", v |-> text]
PyList(members) == [t |-> "list", v |-> members]

\* raw_card_data.get(key) and raw_card_data.get(key, default)
DictGet(d, key) == IF key \in DOMAIN d THEN d[key] ELSE PyNone
DictGetDefault(d, key, default) == IF key \in DOMAIN d THEN d[key] ELSE default

\* yaml_field_map.get(key, ""): the field a key is mapped to
MapGet(map, key) ==
    IF \E i \in DOMAIN map : map[i][1] = key
    THEN map[CHOOSE i \in DOMAIN map : map[i][1] = key][2]
    ELSE ""

Reverse(s) == [i \in 1..Len(s) |-> s[Len(s) + 1 - i]]

\* repr of the strings of a list or a set, separated by ", "
RECURSIVE ReprMembers(_)
ReprMembers(members) ==
    IF members = <<>> THEN <<>>
    ELSE <<"'", Head(members), "'">> \o
         (IF Len(members) > 1 THEN <<", ">> ELSE <<>>) \o ReprMembers(Tail(members))

\* str(value), and the text an f-string puts for {value}.  A set is iterated
\* in the order of its members' hashes, which the process's hash seed decides
str_of(value, seed) ==
    CASE value.t = "str" -> value.v
      [] value.t = "none" -> <<"None">>
      [] value.t = "int" -> value.v
      [] value.t = "list" -> <<"[">> \o ReprMembers(value.v) \o <<"]">>
      [] value.t = "set" ->
            <<"{">> \o ReprMembers(IF seed = 0 THEN value.v ELSE Reverse(value.v))
                    \o <<"}">>

\* a search for the field that is named SourceFile letter for letter
source_file_field_name_exact(fields) ==
    IF \E i \in DOMAIN fields : fields[i] = "SourceFile" THEN "SourceFile" ELSE ""

\* lines 98-100: the field that stores the source file, "" when there is none
source_file_field_name(fields) ==
    IF \E i \in DOMAIN fields : LowerName(fields[i]) = "sourcefile"
    THEN fields[CHOOSE i \in DOMAIN fields :
                    /\ LowerName(fields[i]) = "sourcefile"
                    /\ \A k \in 1..(i - 1) : LowerName(fields[k]) # "sourcefile"]
    ELSE ""

\* card_fields.get(name) formatted in the f-string of line 173
FieldText(fields, name) ==
    IF name \in DOMAIN fields THEN fields[name] ELSE <<"None">>

\* the deck of a card that always takes the computed default
card_deck_ignores_block(raw, default_deck_name) == PyStr(default_deck_name)

\* line 171: raw_card_data.get("deck", default_deck_name)
card_deck(raw, default_deck_name) ==
    DictGetDefault(raw, "deck", PyStr(default_deck_name))

\* a loop that treats the key "tags" as it treats every other key
is_tags_key_never(yaml_key) == FALSE

\* lines 130-131: if yaml_key == "tags": continue
is_tags_key(yaml_key) == yaml_key = "tags"

\* a block that is not skipped when a mapped key is missing
skip_card_never(ok) == FALSE

\* lines 153-154: if not processed_ok: continue
skip_card(ok) == ~ok

\* line 173: the identity basis
guid_basis(fields, map, deck, relative_filepath, seed) ==
    FieldText(fields, MapGet(map, "q")) \o <<"|">> \o
    FieldText(fields, MapGet(map, "a")) \o <<"|">> \o
    str_of(deck, seed) \o <<"|">> \o
    relative_filepath

\* the inner handlers that let an exception of a block leave the loop
inner_except_propagates(exc) == FALSE

\* lines 179-194: except yaml.YAMLError and except Exception inside the loop
\* catch every exception of a block
inner_except(exc) == TRUE

\* a function without the handler around the reading of the document
outer_except_propagates(exc) == FALSE

\* lines 196-197: except Exception around read_text and the loop
outer_except(exc) == TRUE

\* the keyword parameters the signature of find_anki_cards_in_file declares
find_anki_cards_in_file_params == {}

-----------------------------------------------------------------------------
(* The inputs of the Card Extractor *)

\* the schemas: the one of tests/conftest.py, and one whose map is synthesized
ExtractModelData ==
    {[id |-> 1234567890, name |-> "Test Model",
      fields |-> <<"Question", "Answer", "SourceFile">>,
      templates |-> <<[name |-> "Card 1", qfmt |-> <<"{{", "Question", "}}">>,
                       afmt |-> <<"{{", "Question", "}}", "<hr>", "{{", "Answer", "}}">>]>>,
      yaml_field_map |-> [none |-> FALSE,
                          map |-> <<<<"q", "Question">>, <<"a", "Answer">>>>]],
     [id |-> 123, name |-> "Minimal Model",
      fields |-> <<"Front", "Back", "Tags">>,
      templates |-> <<[name |-> "Card 1", qfmt |-> <<"{{", "Front", "}}">>,
                       afmt |-> <<"{{", "FrontSide", "}}", "<hr>", "{{", "Back", "}}">>]>>,
      yaml_field_map |-> [none |-> TRUE, map |-> <<>>]],
     [id |-> 77, name |-> "Answer Only",
      fields |-> <<"Front", "Back", "Tags">>,
      templates |-> <<[name |-> "Card 1", qfmt |-> <<"{{", "Back", "}}">>,
                       afmt |-> <<"{{", "FrontSide", "}}">>]>>,
      yaml_field_map |-> [none |-> FALSE,
                          map |-> <<<<"a", "Back">>, <<"tags", "Tags">>>>]],
     [id |-> 345678, name |-> "Source Model",
      fields |-> <<"Sourcefile", "Front", "Back">>,
      templates |-> <<[name |-> "Card 1", qfmt |-> <<"{{", "Front", "}}">>,
                       afmt |-> <<"{{", "Back", "}}">>]>>,
      yaml_field_map |-> [none |-> FALSE,
                          map |-> <<<<"q", "Front">>, <<"a", "Back">>>>]]}

ExtractModels == {model_validate(d).model : d \in ExtractModelData}

Src(name, value) == [name |-> name, value |-> value]
LocalImage == <<"img", "/", "b.png">>

\* the <img> tags of the fields with images: the attributes of each tag
ItemsLower == <<<<Src(<<"src=">>, LocalImage)>>>>
ItemsUpper == <<<<Src(<<"SRC=">>, LocalImage)>>>>
ItemsTwice == <<<<Src(<<"src=">>, LocalImage)>>, <<Src(<<"src=">>, LocalImage)>>>>
ItemsAbsent == <<<<Src(<<"src=">>, <<"a.png">>)>>>>
ItemsLazy == <<<<Src(<<"data-", "src=">>, LocalImage), Src(<<"src=">>, LocalImage)>>>>

\* field texts: plain text, and text with <img> tags
PlainQ == <<"Q1">>
PlainA == <<"A1">>
ImgLower == RenderField(ItemsLower)
ImgUpper == RenderField(ItemsUpper)
ImgTwice == RenderField(ItemsTwice)
ImgAbsent == RenderField(ItemsAbsent)
ImgLazy == RenderField(ItemsLazy)

\* the parsed bodies of the blocks a document may hold
BlockPool ==
    {[kind |-> "error", data |-> <<>>],
     [kind |-> "seq", data |-> <<>>],
     [kind |-> "map", data |-> [k \in {"q", "a"} |->
                                   IF k = "q" THEN PyStr(PlainQ) ELSE PyStr(PlainA)]],
     [kind |-> "map", data |-> [k \in {"q", "tags"} |->
                                   IF k = "q" THEN PyStr(PlainQ)
                                   ELSE PyList(<<"incomplete">>)]],
     [kind |-> "map", data |-> [k \in {"q", "a"} |->
                                   IF k = "q" THEN PyNone ELSE PyStr(ImgLower)]],
     [kind |-> "map", data |-> [k \in {"q", "a", "deck"} |->
                                   IF k = "q" THEN PyStr(PlainQ)
                                   ELSE IF k = "a" THEN PyStr(ImgAbsent)
                                   ELSE PyStr(<<"Custom", "::", "Deck">>)]],
     [kind |-> "map", data |-> [k \in {"q", "a", "tags"} |->
                                   IF k = "q" THEN PyStr(ImgTwice)
                                   ELSE IF k = "a" THEN PyStr(ImgLower)
                                   ELSE PyList(<<"python">>)]],
     [kind |-> "map", data |-> [k \in {"q", "a"} |->
                                   IF k = "q" THEN [t |-> "int", v |-> <<"42">>]
                                   ELSE PyStr(ImgUpper)]],
     [kind |-> "map", data |-> [k \in {"q", "a"} |->
                                   IF k = "q" THEN [t |-> "set", v |-> <<"x", "y">>]
                                   ELSE PyStr(PlainA)]],
     [kind |-> "map", data |-> [k \in {"q", "a"} |->
                                   IF k = "q" THEN PyStr(PlainQ) ELSE PyStr(ImgLazy)]]}

\* a document: unreadable, or the blocks ANKI_BLOCK_RE finds in its text
Docs == {[readable |-> FALSE, blocks |-> <<>>]}
        \cup [readable : {TRUE}, blocks : SeqUpTo(BlockPool, MaxBlocks)]

DocPaths == {NotesDir \o <<<<"notes", ".md">>>>,
             NotesDir \o <<<<"py">>, <<"basics", ".md">>>>}

\* the images that exist below the scan root
ExtractDisk == {NotesDir \o <<<<"img">>, <<"b.png">>>>,
                NotesDir \o <<<<"py">>, <<"img">>, <<"b.png">>>>}

\* what a caller may add to the positional arguments
ExtractKwargChoices == {{}, {"include_filename_in_deck=True"}}

HashSeeds == {0, 1}

ExtractInit ==
    /\ RunIdle
    /\ model_data = <<>> /\ schema_pc = "idle" /\ LoadIdle
    /\ model_def \in {<<m[1]>> : m \in ExtractModels}
    /\ field_items = <<>> /\ field_content = <<>> /\ md_file_dir = <<>>
    /\ img_pc = "idle" /\ processed_content = <<>> /\ media_files = <<>>
    /\ deck_pc = "idle" /\ deck_result = <<>>
    /\ validation_errors = <<>>
    /\ root_dir = NotesDir
    /\ filepath \in DocPaths
    /\ kwargs \in ExtractKwargChoices
    /\ disk = ExtractDisk
    /\ doc \in Docs
    /\ ex_pc = "call"
    /\ match_num = 0
    /\ raw_card_data = <<>> /\ map_items = <<>> /\ card_fields = <<>>
    /\ card_media = {} /\ processed_ok = TRUE
    /\ cards = <<>>
    /\ all_media_for_file = {}
    /\ file_media = <<>>
    /\ ex_raised = "none"
    /\ hash_seed \in HashSeeds
    /\ run = 1
    /\ first_run = <<>>

\* the document's directory, its path below the scan root, the default deck
MdDir == PathParent(filepath)
RelativeFilepath == RelPathStr(RelativeTo(filepath, root_dir).parts)
DefaultDeck == calculate_deck_name(root_dir, filepath)

\* lines 83-106: the call, up to the reading of the document.  A keyword
\* the signature does not declare raises TypeError; calculate_deck_name may
\* raise, outside any try; a failed read is caught at line 196
CallFindCards ==
    /\ ex_pc = "call"
    /\ IF ~(kwargs \subseteq find_anki_cards_in_file_params)
       THEN ex_pc' = "raised" /\ ex_raised' = "TypeError"
       ELSE IF DefaultDeck.exc # "none"
       THEN ex_pc' = "raised" /\ ex_raised' = DefaultDeck.exc
       ELSE IF ~doc.readable
       THEN IF outer_except("OSError")
            THEN ex_pc' = "except" /\ ex_raised' = "none"
            ELSE ex_pc' = "raised" /\ ex_raised' = "OSError"
       ELSE ex_pc' = "loop" /\ ex_raised' = "none"
    /\ UNCHANGED <<doc, match_num, blockVars, cards, all_media_for_file,
                   file_media, hash_seed, run, first_run>>
    /\ UNCHANGED <<deckVars, imgVars, schemaVars, runVars>>

\* lines 107-127: the next block of the document is parsed.  The inner
\* handlers catch a YAMLError and the loop goes on; an exception they let
\* through is caught at line 196, which ends the loop.  A body that is no
\* dict is passed over
NextBlock ==
    /\ ex_pc = "loop"
    /\ match_num < Len(doc.blocks)
    /\ match_num' = match_num + 1
    /\ LET body == doc.blocks[match_num + 1]
       IN  IF body.kind = "error"
           THEN /\ ex_pc' = IF inner_except("YAMLError") THEN "loop" ELSE "except"
                /\ UNCHANGED blockVars
           ELSE IF body.kind # "map"
           THEN /\ ex_pc' = "loop"
                /\ UNCHANGED blockVars
           ELSE /\ raw_card_data' = body.data
                /\ map_items' = model_def[1].yaml_field_map
                /\ card_fields' = <<>>
                /\ card_media' = {}
                /\ processed_ok' = TRUE
                /\ ex_pc' = IF model_def[1].yaml_field_map = <<>> THEN "card"
                            ELSE "fields"
    /\ UNCHANGED <<doc, cards, all_media_for_file, file_media, ex_raised,
                   hash_seed, run, first_run>>
    /\ UNCHANGED <<deckVars, imgVars, schemaVars, runVars>>

\* lines 129-151: one turn of the loop over yaml_field_map.items().  The key
\* "tags" is passed over; a key whose value is missing or None clears
\* processed_ok and breaks; any other value is made a string and its images
\* are resolved
MapField ==
    /\ ex_pc = "fields"
    /\ LET yaml_key == map_items[1][1]
           field_name == map_items[1][2]
           field_content_raw == DictGet(raw_card_data, yaml_key)
       IN  IF is_tags_key(yaml_key)
           THEN /\ map_items' = Tail(map_items)
                /\ UNCHANGED <<card_fields, card_media, processed_ok>>
           ELSE IF field_content_raw.t = "none"
           THEN /\ processed_ok' = FALSE
                /\ map_items' = <<>>
                /\ UNCHANGED <<card_fields, card_media>>
           ELSE \E r \in {process_field_for_images(
                              str_of(field_content_raw, hash_seed), MdDir, disk)} :
                    /\ card_fields' = (field_name :> r.text) @@ card_fields
                    /\ card_media' = card_media \cup r.found
                    /\ map_items' = Tail(map_items)
                    /\ UNCHANGED processed_ok
    /\ ex_pc' = IF map_items' = <<>> THEN "card" ELSE "fields"
    /\ UNCHANGED <<doc, match_num, raw_card_data, cards, all_media_for_file,
                   file_media, ex_raised, hash_seed, run, first_run>>
    /\ UNCHANGED <<deckVars, imgVars, schemaVars, runVars>>

\* lines 153-177: a block whose processed_ok is False is passed over; for any
\* other the source file is stored, the card is appended to cards and its
\* media are added to all_media_for_file
BuildCard ==
    /\ ex_pc = "card"
    /\ ex_pc' = "loop"
    /\ IF skip_card(processed_ok)
       THEN UNCHANGED <<cards, all_media_for_file>>
       ELSE \E sff \in {source_file_field_name(model_def[1].fields)},
               deck \in {card_deck(raw_card_data, DefaultDeck.value)} :
              \E fields \in {IF sff # "" THEN (sff :> RelativeFilepath) @@ card_fields
                             ELSE card_fields} :
                /\ cards' = Append(cards,
                       [fields |-> fields,
                        tags |-> DictGetDefault(raw_card_data, "tags", PyList(<<>>)),
                        deck |-> deck,
                        guid_basis |-> guid_basis(fields, model_def[1].yaml_field_map,
                                           deck, RelativeFilepath, hash_seed)])
                /\ all_media_for_file' = all_media_for_file \cup card_media
    /\ UNCHANGED <<doc, match_num, blockVars, file_media, ex_raised, hash_seed,
                   run, first_run>>
    /\ UNCHANGED <<deckVars, imgVars, schemaVars, runVars>>

\* lines 196-199: the outer handler, and return cards, list(all_media_for_file)
ReturnCards ==
    /\ \/ ex_pc = "loop" /\ match_num = Len(doc.blocks)
       \/ ex_pc = "except"
    /\ ex_pc' = "returned"
    /\ file_media' \in ListsOfSet(all_media_for_file)
    /\ UNCHANGED <<doc, match_num, blockVars, cards, all_media_for_file,
                   ex_raised, hash_seed, run, first_run>>
    /\ UNCHANGED <<deckVars, imgVars, schemaVars, runVars>>

\* the same call in a second process execution, over the same inputs: the
\* interpreter draws a new hash seed
RunAgain ==
    /\ ex_pc = "returned"
    /\ run = 1
    /\ run' = 2
    /\ first_run' = [i \in DOMAIN cards |-> cards[i].guid_basis]
    /\ hash_seed' \in HashSeeds
    /\ ex_pc' = "call"
    /\ match_num' = 0
    /\ raw_card_data' = <<>> /\ map_items' = <<>> /\ card_fields' = <<>>
    /\ card_media' = {} /\ processed_ok' = TRUE
    /\ cards' = <<>>
    /\ all_media_for_file' = {}
    /\ file_media' = <<>>
    /\ UNCHANGED <<doc, ex_raised>>
    /\ UNCHANGED <<deckVars, imgVars, schemaVars, runVars>>

ExtractNext ==
    CallFindCards \/ NextBlock \/ MapField \/ BuildCard \/ ReturnCards \/ RunAgain

SpecExtract == ExtractInit /\ [][ExtractNext]_vars

-----------------------------------------------------------------------------
(* Package Builder and the run: main.py generate_anki_package and _main *)

\* the most documents rglob finds below the scan root
MaxFiles == 2

Abs(n) == IF n < 0 THEN -n ELSE n

\* a number for each lexeme of the names that are hashed
LexCode(lexeme) ==
    CASE lexeme = "notes" -> 3
      [] lexeme = "py" -> 5
      [] lexeme = "::" -> 7
      [] lexeme = "Custom" -> 11
      [] lexeme = "Deck" -> 13
      [] lexeme = "Deck1" -> 17
      [] lexeme = "Deck2" -> 19
      [] lexeme = "Test Model" -> 23
      [] lexeme = "Minimal Model" -> 29
      [] lexeme = "Answer Only" -> 31
      [] lexeme = "Source Model" -> 43
      [] OTHER -> 37

RECURSIVE TextCode(_)
TextCode(text) ==
    IF text = <<>> THEN 1 ELSE (LexCode(Head(text)) + 41 * TextCode(Tail(text)))

\* hash(text) of a str: a function of the text and of the key the process
\* draws at its start (PYTHONHASHSEED), of either sign
py_hash(text, seed) ==
    IF seed = 0 THEN TextCode(text) * 211 + 12345
    ELSE -(TextCode(text) * 307 + 678)

\* a list and a set have no hash
hashable(value) == value.t \notin {"list", "set"}

\* line 211: the base of the deck ids, from the name of the model.  The ids
\* reach past 2^31: a deck id and its base are written as what they add to
\* 2000000000
deck_id_base(model_name, seed) ==
    Abs(py_hash(<<model_name>>, seed)) % 500000000

\* line 221: the id of a deck, from its name; the names are strings
deck_id(base, deck_name, seed) ==
    base + (Abs(py_hash(deck_name.v, seed)) % 100000000)

\* the fields of a card in the opposite order of the model's fields
ordered_fields_reversed(card, model_field_names) ==
    [i \in DOMAIN model_field_names |->
        IF model_field_names[Len(model_field_names) + 1 - i] \in DOMAIN card.fields
        THEN card.fields[model_field_names[Len(model_field_names) + 1 - i]] ELSE <<>>]

\* lines 226-228: the fields of a card in the order of the model's fields
ordered_fields(card, model_field_names) ==
    [i \in DOMAIN model_field_names |->
        IF model_field_names[i] \in DOMAIN card.fields
        THEN card.fields[model_field_names[i]] ELSE <<>>]

\* lines 234-240: genanki.Note(...) raises ValueError for a tag with a space
note_raises(card) ==
    /\ card.tags.t = "list"
    /\ \E i \in DOMAIN card.tags.v : card.tags.v[i] = "two words"

\* a builder without the handler around the building of the note
note_except_propagates(exc) == FALSE

\* lines 242-249: except Exception around genanki.Note(...) and add_note
note_except(exc) == TRUE

\* a deck that puts a new note before the notes it has
add_note_first(notes, note) == <<note>> \o notes

\* line 241: decks[deck_name].add_note(note)
add_note(notes, note) == Append(notes, note)

\* a builder that writes a package whatever decks holds
no_decks_never(d) == FALSE

\* line 251: if not decks
no_decks(d) == d = <<>>

\* line 256: sorted(list(set(media_files))), the paths without repetition in
\* the one order sorting gives them
unique_media_files(media) == {media[i] : i \in DOMAIN media}

\* a run that scans whatever lies at the path of the notes
is_dir_any(root) == TRUE

\* line 301: root_path.is_dir()
is_dir(root) == root = "dir"

\* lines 329-335: except Exception around the call for one file
file_except(exc) == TRUE

(* The inputs of a run *)

MapBlock(keys, text_of) == [kind |-> "map", data |-> [k \in keys |-> text_of[k]]]

BlockTagged ==
    MapBlock({"q", "a", "tags"},
             [q |-> PyStr(PlainQ), a |-> PyStr(PlainA), tags |-> PyList(<<"python">>)])
BlockPlain ==
    MapBlock({"q", "a"}, [q |-> PyStr(<<"Q2">>), a |-> PyStr(<<"A2">>)])
BlockCustomDeck ==
    MapBlock({"q", "a", "deck"},
             [q |-> PyStr(PlainQ), a |-> PyStr(PlainA),
              deck |-> PyStr(<<"Custom", "::", "Deck">>)])
BlockNoAnswer ==
    MapBlock({"q", "tags"}, [q |-> PyStr(PlainQ), tags |-> PyList(<<"incomplete">>)])
BlockBadYaml == [kind |-> "error", data |-> <<>>]
BlockImage ==
    MapBlock({"q", "a"}, [q |-> PyStr(PlainQ), a |-> PyStr(ImgLower)])
BlockListDeck ==
    MapBlock({"q", "a", "deck"},
             [q |-> PyStr(PlainQ), a |-> PyStr(PlainA), deck |-> PyList(<<"A", "B">>)])

BlockPipeInQ ==
    MapBlock({"q", "a"}, [q |-> PyStr(<<"x", "|", "y">>), a |-> PyStr(<<"z">>)])
BlockPipeInA ==
    MapBlock({"q", "a"}, [q |-> PyStr(<<"x">>), a |-> PyStr(<<"y", "|", "z">>)])

MdFile(path, blocks) == [path |-> path, doc |-> [readable |-> TRUE, blocks |-> blocks]]

\* the documents below the scan root, each with its resolved path: documents
\* with valid blocks, with none, one that cannot be read, and a symbolic
\* link whose target lies outside the scan root
RunFiles ==
    {MdFile(NotesDir \o <<<<"python", ".md">>>>, <<BlockTagged, BlockNoAnswer, BlockPlain>>),
     MdFile(NotesDir \o <<<<"py">>, <<"basics", ".md">>>>, <<BlockCustomDeck>>),
     MdFile(NotesDir \o <<<<"invalid", ".md">>>>, <<BlockNoAnswer, BlockBadYaml>>),
     [path |-> NotesDir \o <<<<"gone", ".md">>>>,
      doc |-> [readable |-> FALSE, blocks |-> <<>>]],
     MdFile(<<<<"elsewhere">>, <<"link", ".md">>>>, <<BlockPlain>>),
     MdFile(NotesDir \o <<<<"py">>, <<"image", ".md">>>>, <<BlockImage>>),
     MdFile(NotesDir \o <<<<"picture", ".md">>>>, <<BlockImage>>),
     MdFile(NotesDir \o <<<<"pipes", ".md">>>>, <<BlockPipeInQ, BlockPipeInA>>),
     MdFile(NotesDir \o <<<<"lists", ".md">>>>, <<BlockListDeck>>)}

\* what rglob may return: some of the documents, in any order
FileLists ==
    {l \in SeqUpTo(RunFiles, MaxFiles) : \A i, j \in DOMAIN l : i # j => l[i] # l[j]}

\* what may lie at the path of the model definition
RunModelPaths ==
    {[kind |-> "absent"],
     [kind |-> "file",
      content |-> [kind |-> "yaml_error", error |-> "mapping values are not allowed here"]],
     [kind |-> "file",
      content |-> [kind |-> "dict_missing", data |-> [id |-> -1, name |-> "Invalid"]]]}
    \cup {[kind |-> "file", content |-> [kind |-> "dict", data |-> d]] :
             d \in ExtractModelData}

\* a card as a caller of generate_anki_package writes it
DirectCard(q, a, tags, deck) ==
    [fields |-> ("Front" :> q) @@ ("Back" :> a) @@ ("SourceFile" :> <<"test.md">>),
     tags |-> PyList(tags),
     deck |-> PyStr(deck),
     guid_basis |-> q \o <<"|">> \o a \o <<"|">> \o deck \o <<"|">> \o <<"test.md">>]

DirectCardLists ==
    {<<>>,
     <<DirectCard(<<"Q1">>, <<"A1">>, <<"python">>, <<"Deck1">>)>>,
     <<DirectCard(<<"Q1">>, <<"A1">>, <<>>, <<"Deck1">>),
       DirectCard(<<"Q2">>, <<"A2">>, <<>>, <<"Deck2">>)>>,
     <<DirectCard(<<"Q1">>, <<"A1">>, <<"two words">>, <<"Deck1">>)>>,
     <<DirectCard(<<"Q1">>, <<"A1">>, <<>>, <<"Deck1">>),
       DirectCard(<<"Q2">>, <<"A2">>, <<"two words">>, <<"Deck2">>),
       DirectCard(<<"Q3">>, <<"A3">>, <<>>, <<"Deck1">>)>>}

DirectMediaLists ==
    {<<>>,
     <<AbsPathStr(NotesDir \o <<<<"img">>, <<"b.png">>>>),
       AbsPathStr(NotesDir \o <<<<"img">>, <<"b.png">>>>)>>}

RunInit ==
    /\ field_items = <<>> /\ field_content = <<>> /\ md_file_dir = <<>>
    /\ img_pc = "idle" /\ processed_content = <<>> /\ media_files = <<>>
    /\ disk = ExtractDisk
    /\ root_dir = NotesDir /\ filepath = <<>> /\ kwargs = {}
    /\ deck_pc = "idle" /\ deck_result = <<>>
    /\ model_data = <<>> /\ schema_pc = "idle" /\ validation_errors = <<>>
    /\ load_raised = <<>>
    /\ doc = <<>> /\ ex_pc = "idle" /\ match_num = 0
    /\ raw_card_data = <<>> /\ map_items = <<>> /\ card_fields = <<>>
    /\ card_media = {} /\ processed_ok = TRUE
    /\ cards = <<>> /\ all_media_for_file = {} /\ file_media = <<>>
    /\ ex_raised = "none"
    /\ hash_seed \in HashSeeds
    /\ run = 1 /\ first_run = <<>>
    /\ entry \in {"_main", "generate_anki_package"}
    /\ write_ok \in BOOLEAN
    /\ exit_code = <<>> /\ file_idx = 0 /\ all_cards = <<>> /\ all_media = {}
    /\ card_idx = 0 /\ decks = <<>> /\ output_file = <<>>
    /\ main_raised = "none" /\ first_decks = <<>>
    /\ IF entry = "_main"
       THEN /\ model_path \in RunModelPaths
            /\ load_pc = "call"
            /\ model_def = <<>>
            /\ root_path \in {"dir", "file", "absent"}
            /\ md_files \in IF root_path = "dir" THEN FileLists ELSE {<<>>}
            /\ main_pc = "load"
            /\ card_data_list = <<>> /\ pkg_media_files = <<>>
       ELSE /\ model_path = <<>>
            /\ load_pc = "idle"
            /\ model_def \in {<<m[1]>> : m \in ExtractModels}
            /\ root_path = "absent"
            /\ md_files = <<>>
            /\ main_pc = "package"
            /\ card_data_list \in DirectCardLists
            /\ pkg_media_files \in DirectMediaLists

\* lines 286-298: the model is loaded; any exception of the loader ends the
\* run with sys.exit(1)
AfterLoad ==
    /\ main_pc = "load"
    /\ load_pc \in {"returned", "raised"}
    /\ IF load_pc = "raised"
       THEN main_pc' = "exited" /\ exit_code' = <<1>>
       ELSE main_pc' = "root" /\ UNCHANGED exit_code
    /\ UNCHANGED <<entry, root_path, md_files, file_idx, all_cards, all_media,
                   card_data_list, pkg_media_files, card_idx, decks, output_file,
                   write_ok, main_raised, first_decks>>
    /\ UNCHANGED <<deckVars, imgVars, schemaVars, extractVars>>

\* lines 300-315: a path that is no directory ends the run with sys.exit(1);
\* else the documents below it are listed
CheckRoot ==
    /\ main_pc = "root"
    /\ IF ~is_dir(root_path)
       THEN main_pc' = "exited" /\ exit_code' = <<1>>
       ELSE main_pc' = "files" /\ UNCHANGED exit_code
    /\ UNCHANGED <<entry, root_path, md_files, file_idx, all_cards, all_media,
                   card_data_list, pkg_media_files, card_idx, decks, output_file,
                   write_ok, main_raised, first_decks>>
    /\ UNCHANGED <<deckVars, imgVars, schemaVars, extractVars>>

\* lines 317-327: the next document is resolved and handed to
\* find_anki_cards_in_file with the scan root and the model
StartFile ==
    /\ main_pc = "files"
    /\ ex_pc = "idle"
    /\ file_idx < Len(md_files)
    /\ file_idx' = file_idx + 1
    /\ filepath' = md_files[file_idx + 1].path
    /\ doc' = md_files[file_idx + 1].doc
    /\ ex_pc' = "call"
    /\ match_num' = 0
    /\ raw_card_data' = <<>> /\ map_items' = <<>> /\ card_fields' = <<>>
    /\ card_media' = {} /\ processed_ok' = TRUE
    /\ cards' = <<>>
    /\ all_media_for_file' = {}
    /\ file_media' = <<>>
    /\ ex_raised' = "none"
    /\ UNCHANGED <<hash_seed, run, first_run>>
    /\ UNCHANGED <<root_dir, kwargs, deck_pc, deck_result>>
    /\ UNCHANGED <<entry, root_path, md_files, main_pc, exit_code, all_cards,
                   all_media, card_data_list, pkg_media_files, card_idx, decks,
                   output_file, write_ok, main_raised, first_decks>>
    /\ UNCHANGED <<imgVars, schemaVars>>

\* lines 324-335: the cards of the document are appended to all_cards and its
\* media added to all_media; an exception of the call is logged and the loop
\* goes on
CollectFile ==
    /\ main_pc = "files"
    /\ ex_pc \in {"returned", "raised"}
    /\ ex_pc' = "idle"
    /\ IF ex_pc = "returned"
       THEN /\ all_cards' = all_cards \o cards
            /\ all_media' = all_media \cup {file_media[i] : i \in DOMAIN file_media}
            /\ UNCHANGED <<main_pc, main_raised>>
       ELSE IF file_except(ex_raised)
       THEN UNCHANGED <<all_cards, all_media, main_pc, main_raised>>
       ELSE /\ main_pc' = "raised" /\ main_raised' = ex_raised
            /\ UNCHANGED <<all_cards, all_media>>
    /\ UNCHANGED <<doc, match_num, blockVars, cards, all_media_for_file,
                   file_media, ex_raised, hash_seed, run, first_run>>
    /\ UNCHANGED <<entry, root_path, md_files, exit_code, file_idx,
                   card_data_list, pkg_media_files, card_idx, decks, output_file,
                   write_ok, first_decks>>
    /\ UNCHANGED <<deckVars, imgVars, schemaVars>>

\* lines 337-347: with cards, generate_anki_package is called with all_cards
\* and list(all_media); with none, a warning ends the run
FinishScan ==
    /\ main_pc = "files"
    /\ ex_pc = "idle"
    /\ file_idx = Len(md_files)
    /\ IF all_cards # <<>>
       THEN /\ main_pc' = "package"
            /\ card_data_list' = all_cards
            /\ pkg_media_files' \in ListsOfSet(all_media)
       ELSE /\ main_pc' = "done"
            /\ UNCHANGED <<card_data_list, pkg_media_files>>
    /\ card_idx' = 0
    /\ decks' = <<>>
    /\ UNCHANGED <<entry, root_path, md_files, exit_code, file_idx, all_cards,
                   all_media, output_file, write_ok, main_raised, first_decks>>
    /\ UNCHANGED <<deckVars, imgVars, schemaVars, extractVars>>

\* lines 217-249: one card of card_data_list.  The deck is looked up in decks,
\* which hashes its name: a name without a hash raises TypeError, outside any
\* try.  A deck not yet seen is created with its id.  The note is built and
\* added inside a try: a note that cannot be built is logged and left out
AddCard ==
    /\ main_pc = "package"
    /\ card_idx < Len(card_data_list)
    /\ LET card_data == card_data_list[card_idx + 1]
           deck_name == IF "deck" \in DOMAIN card_data THEN card_data.deck
                        ELSE PyStr(<<"Default">>)
       IN  IF ~hashable(deck_name)
           THEN /\ main_pc' = "raised" /\ main_raised' = "TypeError"
                /\ UNCHANGED <<card_idx, decks>>
           ELSE \E with_deck \in
                    {IF \E i \in DOMAIN decks : decks[i].name = deck_name THEN decks
                     ELSE Append(decks,
                            [name |-> deck_name,
                             id |-> deck_id(deck_id_base(model_def[1].name, hash_seed),
                                            deck_name, hash_seed),
                             notes |-> <<>>])} :
                  \E k \in {i \in DOMAIN with_deck : with_deck[i].name = deck_name},
                     note \in {[fields |-> ordered_fields(card_data, model_def[1].fields),
                                guid |-> [guid_for |-> card_data.guid_basis],
                                tags |-> card_data.tags]} :
                    IF note_raises(card_data) /\ ~note_except("ValueError")
                    THEN /\ main_pc' = "raised" /\ main_raised' = "ValueError"
                         /\ decks' = with_deck
                         /\ UNCHANGED card_idx
                    ELSE /\ decks' = IF note_raises(card_data) THEN with_deck
                                     ELSE [with_deck EXCEPT
                                              ![k].notes = add_note(@, note)]
                         /\ card_idx' = card_idx + 1
                         /\ UNCHANGED <<main_pc, main_raised>>
    /\ UNCHANGED <<entry, root_path, md_files, exit_code, file_idx, all_cards,
                   all_media, card_data_list, pkg_media_files, output_file,
                   write_ok, first_decks>>
    /\ UNCHANGED <<deckVars, imgVars, schemaVars, extractVars>>

\* lines 251-275: without decks the function returns; else the package of
\* the decks and the media is written, and a failure to write is logged
WritePackage ==
    /\ main_pc = "package"
    /\ card_idx = Len(card_data_list)
    /\ main_pc' = "done"
    /\ IF no_decks(decks) \/ ~write_ok
       THEN UNCHANGED output_file
       ELSE output_file' = <<[decks |-> decks,
                              media_files |-> unique_media_files(pkg_media_files),
                              card_count |-> Len(card_data_list)]>>
    /\ UNCHANGED <<entry, root_path, md_files, exit_code, file_idx, all_cards,
                   all_media, card_data_list, pkg_media_files, card_idx, decks,
                   write_ok, main_raised, first_decks>>
    /\ UNCHANGED <<deckVars, imgVars, schemaVars, extractVars>>

\* the same call in a second process execution, over the same inputs: the
\* interpreter draws a new hash seed
RunProcessAgain ==
    /\ main_pc = "done"
    /\ run = 1
    /\ run' = 2
    /\ hash_seed' \in HashSeeds
    /\ first_decks' = decks
    /\ main_pc' = IF entry = "_main" THEN "load" ELSE "package"
    /\ load_pc' = IF entry = "_main" THEN "call" ELSE "idle"
    /\ model_def' = IF entry = "_main" THEN <<>> ELSE model_def
    /\ card_data_list' = IF entry = "_main" THEN <<>> ELSE card_data_list
    /\ pkg_media_files' = IF entry = "_main" THEN <<>> ELSE pkg_media_files
    /\ model_data' = <<>> /\ validation_errors' = <<>> /\ load_raised' = <<>>
    /\ file_idx' = 0 /\ all_cards' = <<>> /\ all_media' = {}
    /\ card_idx' = 0 /\ decks' = <<>>
    /\ filepath' = <<>> /\ doc' = <<>> /\ ex_pc' = "idle" /\ match_num' = 0
    /\ raw_card_data' = <<>> /\ map_items' = <<>> /\ card_fields' = <<>>
    /\ card_media' = {} /\ processed_ok' = TRUE
    /\ cards' = <<>> /\ all_media_for_file' = {} /\ file_media' = <<>>
    /\ ex_raised' = "none"
    /\ UNCHANGED <<first_run, model_path, schema_pc>>
    /\ UNCHANGED <<root_dir, kwargs, deck_pc, deck_result>>
    /\ UNCHANGED <<entry, root_path, md_files, exit_code, output_file, write_ok,
                   main_raised>>
    /\ UNCHANGED imgVars

RunNext ==
    \/ LoadAndValidateModel \/ AfterLoad \/ CheckRoot \/ StartFile
    \/ CallFindCards \/ NextBlock \/ MapField \/ BuildCard \/ ReturnCards
    \/ CollectFile \/ FinishScan \/ AddCard \/ WritePackage \/ RunProcessAgain

SpecRun == RunInit /\ [][RunNext]_vars

-----------------------------------------------------------------------------
(* Claims about the Deck Namer *)

\* the document lies inside the scan root
InsideRoot == IsPrefix(root_dir, filepath) /\ Len(filepath) > Len(root_dir)

\* the directory components of the document's path relative to the scan root
RelDirs == SubSeq(filepath, Len(root_dir) + 1, Len(filepath) - 1)

\* the text of the segments with "::" before every segment but the first
SegmentsText(segs) ==
    LET F[i \in 0..Len(segs)] ==
            IF i = 0 THEN <<>>
            ELSE IF i = 1 THEN segs[1]
            ELSE F[i - 1] \o <<"::">> \o segs[i]
    IN  F[Len(segs)]

\* a file name without its last suffix (pathlib's stem)
Stem(name) ==
    IF Len(name) > 1 /\ name[Len(name)] \in {".md", ".2"}
    THEN SubSeq(name, 1, Len(name) - 1)
    ELSE name

\* C1: with the include-filename flag true, the deck name of every file inside
\* the scan root is the root's name, the directory components of the relative
\* path and the file name's stem, joined by "::".
C1_DeckNameWithFilename ==
    (deck_pc # "call" /\ kwargs = {"include_filename=True"} /\ InsideRoot)
        => /\ deck_pc = "returned"
           /\ deck_result =
                  SegmentsText(<<PathName(root_dir)>> \o RelDirs \o
                               <<Stem(PathName(filepath))>>)

\* C2: without the flag, calculate_deck_name(root, file) returns, for every
\* file inside root, the root's name and the directory components of the
\* relative path joined by "::" (the root's name alone for a file directly
\* inside root), and no other file name in the same directory changes it.
C2_DeckNameWithoutFilename ==
    (deck_pc # "call" /\ kwargs = {} /\ InsideRoot)
        => /\ deck_pc = "returned"
           /\ deck_result = SegmentsText(<<PathName(root_dir)>> \o RelDirs)
           /\ (RelDirs = <<>> => deck_result = PathName(root_dir))
           /\ \A f \in FileNames :
                  call_calculate_deck_name(root_dir, PathParent(filepath) \o <<f>>, {}).value
                      = deck_result

\* a nested file under a named root, named without the flag
C2_Witness ==
    /\ deck_pc = "returned"
    /\ kwargs = {}
    /\ Len(root_dir) = 2
    /\ Len(RelDirs) = 2
    /\ deck_result = <<"py", "::", "notes", "::", "py">>

-----------------------------------------------------------------------------
(* Claims about the image resolver *)

\* the values of a tag's src attributes (the attribute's name is src, in
\* either case; data-src and alt are other attributes)
SrcValues(as) ==
    {as[i].value : i \in {k \in DOMAIN as : as[k].name \in {<<"src=">>, <<"SRC=">>}}}

IsRemote(value) == Lower(Head(value)) \in {"http://", "https://", "data:"}

\* the tag has a src attribute and every src value starts with a remote scheme
RemoteTag(as) == SrcValues(as) # {} /\ \A v \in SrcValues(as) : IsRemote(v)

\* the path a local src value names, resolved against the document's directory
ResolvedSrc(value) == Resolve(JoinPath(md_file_dir, ParsePath(value)), <<>>)

\* the tag has a src attribute, every src value is local and none of them
\* names an existing file
MissingLocalTag(as) ==
    /\ SrcValues(as) # {}
    /\ \A v \in SrcValues(as) : ~IsRemote(v) /\ ResolvedSrc(v) \notin disk

\* C6: process_field_for_images never rewrites and never records as media an
\* <img> tag whose src value starts with http://, https:// or data:; for a
\* field of such tags the text returned is the input and the media list is
\* empty, whatever files exist.
C6_RemoteImagesUntouched ==
    (img_pc = "returned" /\ \A i \in DOMAIN field_items : RemoteTag(field_items[i]))
        => /\ processed_content = field_content
           /\ media_files = <<>>

\* what process_field_for_images makes of one tag taken alone
TagAlone(as) == process_field_for_images(RenderTag(as), md_file_dir, disk)

\* the text of a field whose tags are replaced by the texts outs
RECURSIVE GlueField(_)
GlueField(outs) ==
    IF outs = <<>> THEN <<"end">>
    ELSE <<"see", " ">> \o Head(outs) \o <<" ">> \o GlueField(Tail(outs))

\* C8: a tag whose local src resolves to no existing file is returned
\* character for character and adds no media path, while the other tags of
\* the field are resolved as they are alone.
C8_MissingImagesUntouched ==
    img_pc = "returned"
        => LET missing == {i \in DOMAIN field_items : MissingLocalTag(field_items[i])}
               outs == [i \in DOMAIN field_items |->
                           IF i \in missing THEN RenderTag(field_items[i])
                           ELSE TagAlone(field_items[i]).text]
               found == UNION {TagAlone(field_items[i]).found :
                                  i \in DOMAIN field_items \ missing}
           IN  /\ processed_content = GlueField(outs)
               /\ {media_files[k] : k \in DOMAIN media_files} = found

-----------------------------------------------------------------------------
(* Claims about the Card Extractor *)

\* the keys of yaml_field_map other than "tags"
MappedKeys ==
    {model_def[1].yaml_field_map[i][1] : i \in DOMAIN model_def[1].yaml_field_map}
        \ {"tags"}

\* a block whose body is a mapping that has a value for every mapped key
Complete(b) ==
    /\ b.kind = "map"
    /\ \A key \in MappedKeys : DictGet(b.data, key).t # "none"

\* the blocks of the document that are to yield a record, in their order
CompleteBlocks == SelectSeq(doc.blocks, Complete)

\* the default deck of the document without the flag: the root's name and the
\* directories of the relative path
DefaultDeckText == SegmentsText(<<PathName(root_dir)>> \o RelDirs)

RecordAlone(b) ==
    LET map == model_def[1].yaml_field_map
        keyed == {i \in DOMAIN map : map[i][1] # "tags"}
        sff == source_file_field_name(model_def[1].fields)
        names == {map[i][2] : i \in keyed} \cup (IF sff = "" THEN {} ELSE {sff})
        fields == [name \in names |->
                      IF name = sff THEN RelativeFilepath
                      ELSE LET i == CHOOSE k \in keyed : map[k][2] = name
                           IN  process_field_for_images(
                                   str_of(b.data[map[i][1]], hash_seed), MdDir, disk).text]
        deck == IF "deck" \in DOMAIN b.data THEN b.data["deck"]
                ELSE PyStr(DefaultDeckText)
    IN  [fields |-> fields,
         tags |-> IF "tags" \in DOMAIN b.data THEN b.data["tags"] ELSE PyList(<<>>),
         deck |-> deck,
         guid_basis |-> guid_basis(fields, map, deck, RelativeFilepath, hash_seed)]

\* C4: a block that lacks a mapped key other than "tags", or has null for it,
\* yields no record and raises nothing, and the records of the other blocks
\* of the file are what they are without it.
C4_MissingKeySkipsBlock ==
    /\ kwargs = {} => ex_pc # "raised"
    /\ (ex_pc = "returned" /\ doc.readable)
           => /\ ex_raised = "none"
              /\ Len(cards) = Len(CompleteBlocks)
              /\ \A i \in DOMAIN cards : cards[i] = RecordAlone(CompleteBlocks[i])

\* a block without a mapped key before a complete block, both gone through
C4_Witness ==
    /\ ex_pc = "returned"
    /\ Len(doc.blocks) = 2
    /\ doc.blocks[1].kind = "map"
    /\ "a" \notin DOMAIN doc.blocks[1].data
    /\ Complete(doc.blocks[2])
    /\ Len(cards) = 1

\* the blocks whose body is a mapping
IsMapping(b) == b.kind = "map"

\* C5: a block whose body is no YAML, or no mapping, yields no record and no
\* exception reaches the caller; the loop goes on to the next block.
C5_BadYamlSkipsBlock ==
    (ex_pc = "returned" /\ doc.readable)
        => /\ ex_raised = "none"
           /\ match_num = Len(doc.blocks)
           /\ Len(cards) <= Len(SelectSeq(doc.blocks, IsMapping))
           /\ \A k \in DOMAIN doc.blocks :
                 (~IsMapping(doc.blocks[k]) /\ k < Len(doc.blocks)
                      /\ Complete(doc.blocks[k + 1]))
                     => LET n == Len(SelectSeq(SubSeq(doc.blocks, 1, k + 1), Complete))
                        IN  /\ Len(cards) >= n
                            /\ cards[n].fields = RecordAlone(doc.blocks[k + 1]).fields

\* a body that is no YAML before a complete block, both gone through
C5_Witness ==
    /\ ex_pc = "returned"
    /\ Len(doc.blocks) = 2
    /\ doc.blocks[1].kind = "error"
    /\ Complete(doc.blocks[2])
    /\ Len(cards) = 1

\* the path a local src value of the document names
ResolvedFrom(value) == Resolve(JoinPath(MdDir, ParsePath(value)), <<>>)

\* the src value names an existing file
Resolvable(value) == ~IsRemote(value) /\ ResolvedFrom(value) \in disk

\* a tag with every resolvable src value replaced by the file's base name
TagRewritten(as) ==
    [i \in DOMAIN as |->
        IF as[i].name \in {<<"src=">>, <<"SRC=">>} /\ Resolvable(as[i].value)
        THEN [name |-> as[i].name, value |-> PathName(ResolvedFrom(as[i].value))]
        ELSE as[i]]

\* the tags of the fields with images, by the text of the field
ImageFieldItems == {ItemsLower, ItemsUpper, ItemsTwice, ItemsAbsent, ItemsLazy}

\* C7: every local src that resolves to an existing file is rewritten to the
\* file's base name in the record's field, and the resolved path is exactly
\* once in the media returned for the file, however often it is referenced.
C7_ResolvedImagesRewritten ==
    (ex_pc = "returned" /\ doc.readable /\ Len(cards) = Len(CompleteBlocks))
        => \A i \in DOMAIN cards : \A key \in MappedKeys : \A items \in ImageFieldItems :
              CompleteBlocks[i].data[key] = PyStr(RenderField(items))
                  => /\ cards[i].fields[MapGet(model_def[1].yaml_field_map, key)]
                            = RenderField([k \in DOMAIN items |-> TagRewritten(items[k])])
                     /\ \A k \in DOMAIN items : \A v \in SrcValues(items[k]) :
                            Resolvable(v)
                                => Cardinality({n \in DOMAIN file_media :
                                                   file_media[n] = AbsPathStr(ResolvedFrom(v))})
                                       = 1

\* C9: a second execution over the same schema, root, document and files
\* returns the identity-basis strings of the first, in the same order.
C9_Deterministic ==
    (run = 2 /\ ex_pc = "returned")
        => [i \in DOMAIN cards |-> cards[i].guid_basis] = first_run

-----------------------------------------------------------------------------
(* Claims about the Schema Model *)

ErrorAt(loc, msg) ==
    \E i \in DOMAIN validation_errors :
        validation_errors[i].loc = loc /\ validation_errors[i].msg = msg

\* C10: an accepted Schema Model has fields, templates and id > 0; a
\* definition with no fields, no templates or id <= 0 is rejected, with the
\* empty-list error, respectively the non-positive-id error, and no model.
C10_SchemaBasicInvariants ==
    /\ schema_pc = "returned"
           => /\ Len(model_def) = 1
              /\ model_def[1].fields # <<>>
              /\ model_def[1].templates # <<>>
              /\ model_def[1].id > 0
    /\ (schema_pc \in {"returned", "raised"} /\ model_data.fields = <<>>)
           => /\ schema_pc = "raised" /\ model_def = <<>>
              /\ ErrorAt("fields", "Fields and templates list cannot be empty")
    /\ (schema_pc \in {"returned", "raised"} /\ model_data.templates = <<>>)
           => /\ schema_pc = "raised" /\ model_def = <<>>
              /\ ErrorAt("templates", "Fields and templates list cannot be empty")
    /\ (schema_pc \in {"returned", "raised"} /\ model_data.id <= 0)
           => /\ schema_pc = "raised" /\ model_def = <<>>
              /\ ErrorAt("id", "Model ID must be a positive integer")

\* a definition with an id of 0 and nothing else wrong is rejected for its
\* id, and a definition with nothing wrong is accepted
C10_Witness ==
    /\ schema_pc = "raised"
    /\ model_data.id = 0
    /\ model_data.fields = <<"Front", "Back">>
    /\ Len(model_data.templates) = 1
    /\ validation_errors = <<[loc |-> "id", msg |-> "Model ID must be a positive integer"]>>

\* the definition passes check_not_empty and check_id_positive
PassesFieldChecks ==
    model_data.id > 0 /\ model_data.fields # <<>> /\ model_data.templates # <<>>

\* the names of the references {{name}}, {{#name}}, {{/name}} and {{^name}}
\* of a format string: the text between the braces, after the marker
ReferenceNames(fmt) ==
    {SubSeq(fmt, i + 1 + (IF fmt[i + 1] \in {"#", "/", "^"} /\ j > i + 2 THEN 1 ELSE 0),
            j - 1) :
        <<i, j>> \in {<<a, b>> \in (DOMAIN fmt) \X (DOMAIN fmt) :
                         /\ fmt[a] = "{{" /\ fmt[b] = "}}" /\ b > a + 1
                         /\ \A k \in (a + 1)..(b - 1) : fmt[k] \notin {"{{", "}}"}}}

\* the referenced names that are neither a declared field nor a builtin
UndefinedNames(fmt) ==
    {n \in ReferenceNames(fmt) :
        /\ n \notin {<<model_data.fields[i]>> : i \in DOMAIN model_data.fields}
        /\ n \notin {<<"FrontSide">>, <<"Tags">>, <<"Type">>, <<"Deck">>,
                     <<"Subdeck">>, <<"Card">>}}

AllUndefinedNames ==
    UNION {UndefinedNames(model_data.templates[i].qfmt)
               \cup UndefinedNames(model_data.templates[i].afmt) :
           i \in DOMAIN model_data.templates}

UndefinedFieldsErrors ==
    {i \in DOMAIN validation_errors : validation_errors[i].msg = "uses undefined fields"}

\* C11: a definition that passes the non-emptiness and id checks fails with
\* an undefined-fields error if and only if a format string of a template
\* references a name that is neither a declared field nor a builtin; the
\* error names such a field, and references to builtins never reject.
C11_UndefinedTemplateFields ==
    (schema_pc \in {"returned", "raised"} /\ PassesFieldChecks)
        => /\ (UndefinedFieldsErrors # {}) <=> (AllUndefinedNames # {})
           /\ UndefinedFieldsErrors # {} => schema_pc = "raised" /\ model_def = <<>>
           /\ \A i \in UndefinedFieldsErrors :
                 /\ validation_errors[i].names # {}
                 /\ validation_errors[i].names \subseteq AllUndefinedNames
           /\ \A i \in UndefinedFieldsErrors :
                 \A n \in validation_errors[i].names :
                     n \notin {<<"FrontSide">>, <<"Tags">>, <<"Type">>, <<"Deck">>,
                               <<"Subdeck">>, <<"Card">>}

\* a definition whose only undefined reference is on an answer side, next to
\* a builtin, is rejected with an error that names it
C11_Witness ==
    /\ schema_pc = "raised"
    /\ PassesFieldChecks
    /\ model_data.fields = <<"Front", "Back">>
    /\ Len(model_data.templates) = 2
    /\ model_data.templates[1].name = "Card 1"
    /\ model_data.templates[2].name = "Card 3"
    /\ validation_errors = <<[loc |-> "afmt", msg |-> "uses undefined fields",
                              names |-> {<<"Extra">>}]>>

\* the validation reaches set_default_yaml_field_map: no field validator and
\* no template check has raised
ReachesMapValidator == PassesFieldChecks /\ AllUndefinedNames = {}

\* the dict of a map given as pairs
AsDict(map) == {<<map[i][1], map[i][2]>> : i \in DOMAIN map}

\* the fields named "tags" in any case, by position
TagsFields == {i \in DOMAIN model_data.fields :
                  model_data.fields[i] \in {"tags", "Tags", "TAGS"}}

\* C12: without an explicit map, two or more fields give exactly
\* {q: fields[0], a: fields[1]} and, if and only if a field is named "tags"
\* in any case, tags -> the declared name of the first such field; fewer than
\* two fields fail with a validation error; an explicit map is kept as it is.
C12_DefaultFieldMap ==
    (schema_pc \in {"returned", "raised"} /\ ReachesMapValidator)
        => /\ (model_data.yaml_field_map.none /\ Len(model_data.fields) >= 2)
                  => /\ schema_pc = "returned"
                     /\ AsDict(model_def[1].yaml_field_map) =
                            {<<"q", model_data.fields[1]>>, <<"a", model_data.fields[2]>>}
                            \cup (IF TagsFields = {} THEN {}
                                  ELSE {<<"tags", model_data.fields[
                                            CHOOSE i \in TagsFields :
                                                \A k \in TagsFields : i <= k]>>})
                     /\ Len(model_def[1].yaml_field_map) =
                            Cardinality(AsDict(model_def[1].yaml_field_map))
           /\ (model_data.yaml_field_map.none /\ Len(model_data.fields) < 2)
                  => /\ schema_pc = "raised" /\ model_def = <<>>
                     /\ \E i \in DOMAIN validation_errors :
                            validation_errors[i].msg = "Cannot set default q/a mapping"
           /\ (~model_data.yaml_field_map.none /\ schema_pc = "returned")
                  => model_def[1].yaml_field_map = model_data.yaml_field_map.map
           /\ ~model_data.yaml_field_map.none
                  => \A i \in DOMAIN validation_errors :
                         validation_errors[i].msg # "Cannot set default q/a mapping"

\* fields with two names that are "tags" in another case: the first is mapped
C12_Witness ==
    /\ schema_pc = "returned"
    /\ model_data.yaml_field_map.none
    /\ model_data.fields = <<"Front", "TAGS", "Tags">>
    /\ model_def[1].yaml_field_map =
           <<<<"q", "Front">>, <<"a", "TAGS">>, <<"tags", "TAGS">>>>

\* C13: in an accepted Schema Model every value of the map, given or
\* synthesized, is the name of a declared field; a map with a value that is no
\* declared field is rejected with a validation error.
C13_MappedFieldsDeclared ==
    /\ schema_pc = "returned"
           => \A i \in DOMAIN model_def[1].yaml_field_map :
                 \E k \in DOMAIN model_def[1].fields :
                     model_def[1].fields[k] = model_def[1].yaml_field_map[i][2]
    /\ (/\ schema_pc \in {"returned", "raised"}
        /\ ~model_data.yaml_field_map.none
        /\ \E i \in DOMAIN model_data.yaml_field_map.map :
               \A k \in DOMAIN model_data.fields :
                   model_data.fields[k] # model_data.yaml_field_map.map[i][2])
           => /\ schema_pc = "raised" /\ model_def = <<>>
              /\ validation_errors # <<>>
              /\ ReachesMapValidator
                     => \E i \in DOMAIN validation_errors :
                            /\ validation_errors[i].msg =
                                   "yaml_field_map contains fields not defined"
                            /\ validation_errors[i].names # {}

\* an explicit map whose answer field is not declared is rejected for it
C13_Witness ==
    /\ schema_pc = "raised"
    /\ model_data.fields = <<"Front", "Back">>
    /\ model_data.yaml_field_map =
           [none |-> FALSE, map |-> <<<<"q", "Front">>, <<"a", "Answer">>>>]
    /\ validation_errors = <<[loc |-> "model",
                              msg |-> "yaml_field_map contains fields not defined",
                              names |-> {"Answer"}]>>

\* the definition read from the file passes every validator
ValidDefinition(d) ==
    /\ d.id > 0 /\ d.fields # <<>> /\ d.templates # <<>>
    /\ \A i \in DOMAIN d.templates :
          \A n \in ReferenceNames(d.templates[i].qfmt)
                       \cup ReferenceNames(d.templates[i].afmt) :
              \/ n \in {<<d.fields[k]>> : k \in DOMAIN d.fields}
              \/ n \in {<<"FrontSide">>, <<"Tags">>, <<"Type">>, <<"Deck">>,
                        <<"Subdeck">>, <<"Card">>}
    /\ d.yaml_field_map.none => Len(d.fields) >= 2
    /\ \A i \in DOMAIN d.yaml_field_map.map :
          \E k \in DOMAIN d.fields : d.fields[k] = d.yaml_field_map.map[i][2]

\* the path is a file whose text parses
Parses == /\ model_path.kind = "file"
          /\ model_path.content.kind \in {"non_dict", "dict_missing", "dict"}

\* the path is a file whose text parses to a definition that validates
ParsesAndValidates ==
    /\ model_path.kind = "file"
    /\ model_path.content.kind = "dict"
    /\ ValidDefinition(model_path.content.data)

\* C14: load_and_validate_model returns a Schema Model only for an existing
\* file whose text parses and validates; an absent file raises a not-found
\* error, a text that does not parse a ValueError with the parse error, a
\* content that fails validation a ValueError with the validation detail; no
\* partially validated model is returned.
C14_LoaderOutcomes ==
    load_pc \in {"returned", "raised"}
        => /\ (load_pc = "returned") <=> ParsesAndValidates
           /\ load_pc = "returned"
                  => /\ Len(model_def) = 1
                     /\ load_raised = <<>>
                     /\ model_def[1].id = model_path.content.data.id
                     /\ model_def[1].fields = model_path.content.data.fields
                     /\ model_def[1].templates = model_path.content.data.templates
           /\ load_pc = "raised" => model_def = <<>> /\ load_raised # <<>>
           /\ model_path.kind # "file"
                  => load_pc = "raised" /\ load_raised.type = "FileNotFoundError"
           /\ (model_path.kind = "file" /\ model_path.content.kind = "yaml_error")
                  => /\ load_raised.type = "ValueError"
                     /\ load_raised.msg = "Invalid YAML in model file"
                     /\ load_raised.detail = <<model_path.content.error>>
           /\ (Parses /\ ~ParsesAndValidates)
                  => /\ load_raised.type = "ValueError"
                     /\ load_raised.msg = "Invalid model definition"
                     /\ load_raised.detail # <<>>
                     /\ load_raised.detail = validation_errors

\* a file whose definition has an undefined template field is refused with
\* the validation detail
C14_Witness ==
    /\ load_pc = "raised"
    /\ model_path.kind = "file"
    /\ model_path.content.kind = "dict"
    /\ model_path.content.data.id > 0
    /\ model_path.content.data.fields = <<"Front", "Back">>
    /\ load_raised = [type |-> "ValueError", msg |-> "Invalid model definition",
                      detail |-> <<[loc |-> "afmt", msg |-> "uses undefined fields",
                                    names |-> {<<"Extra">>}]>>]

\* C18: when the document cannot be read, find_anki_cards_in_file returns no
\* card and no media and raises nothing.
C18_UnreadableFileIsEmpty ==
    (ex_pc \in {"except", "returned", "raised"} /\ ~doc.readable /\ kwargs = {})
        => /\ ex_pc # "raised"
           /\ ex_raised = "none"
           /\ cards = <<>>
           /\ all_media_for_file = {}
           /\ ex_pc = "returned" => file_media = <<>>

\* a document below a directory of the root that cannot be read, returned from
C18_Witness ==
    /\ ex_pc = "returned"
    /\ ~doc.readable
    /\ kwargs = {}
    /\ Len(RelDirs) = 1
    /\ cards = <<>>
    /\ file_media = <<>>

\* the processed content of the field a key is mapped to, the empty string
\* when the schema maps no such key
MappedContent(card, key) ==
    IF \E i \in DOMAIN model_def[1].yaml_field_map :
           model_def[1].yaml_field_map[i][1] = key
    THEN card.fields[MapGet(model_def[1].yaml_field_map, key)]
    ELSE <<>>

\* C19: the identity basis of a record is the content of the field mapped
\* from q (the empty string without such a key), the content of the field
\* mapped from a (likewise), the record's deck name and the file's relative
\* path, joined by "|".
C19_IdentityBasis ==
    \A i \in DOMAIN cards :
        cards[i].guid_basis =
            MappedContent(cards[i], "q") \o <<"|">> \o
            MappedContent(cards[i], "a") \o <<"|">> \o
            str_of(cards[i].deck, hash_seed) \o <<"|">> \o
            RelativeFilepath

-----------------------------------------------------------------------------
(* Claims about the run and the Package Builder *)

\* the run got past the loading of the model and the check of the scan root
ScanStarted == entry = "_main" /\ load_pc = "returned" /\ root_path = "dir"

\* C15: when the scanned files yield no record at all, the run ends normally,
\* with no exception and no exit code, and no package lies at the output
\* path; and generate_anki_package called with an empty list writes no file.
C15_NoCardsNoArtifact ==
    /\ (ScanStarted /\ all_cards = <<>> /\ main_pc \notin {"load", "root", "files"})
          => /\ main_pc = "done"
             /\ main_raised = "none"
             /\ exit_code = <<>>
             /\ output_file = <<>>
    /\ (entry = "generate_anki_package" /\ card_data_list = <<>>)
          => /\ main_pc \in {"package", "done"}
             /\ main_raised = "none"
             /\ output_file = <<>>

\* a run over a document with only incomplete and unparsable blocks and a
\* document that cannot be read has ended, and the output path could be
\* written
C15_Witness ==
    /\ ScanStarted
    /\ main_pc = "done"
    /\ all_cards = <<>>
    /\ Len(md_files) = 2
    /\ \E i \in DOMAIN md_files : Len(md_files[i].doc.blocks) = 2
    /\ \E i \in DOMAIN md_files : ~md_files[i].doc.readable
    /\ write_ok

\* the loader raised, or the path of the notes is no directory
Aborts ==
    /\ entry = "_main"
    /\ \/ load_pc = "raised"
       \/ load_pc = "returned" /\ root_path # "dir"

\* C16: a missing model file, a model that does not parse or validate, and a
\* scan root that is no directory each end the run with exit code 1 before
\* any document is read, and no package is written.
C16_AbortBeforeScan ==
    Aborts => /\ main_pc \in {"load", "root", "exited"}
              /\ main_pc = "exited" => exit_code = <<1>>
              /\ file_idx = 0
              /\ ex_pc = "idle"
              /\ doc = <<>>
              /\ main_raised = "none"
              /\ output_file = <<>>

\* the run has exited on a model that does not validate, with two documents
\* below a scan root that is a directory
C16_Witness ==
    /\ main_pc = "exited"
    /\ exit_code = <<1>>
    /\ load_pc = "raised"
    /\ load_raised.type = "ValueError"
    /\ load_raised.msg = "Invalid model definition"
    /\ root_path = "dir"
    /\ Len(md_files) = 2

\* a document whose call fails: its resolved path lies outside the scan root
FileFails(f) == ~IsPrefix(root_dir, f.path)

\* the blocks of the documents that are to yield a record, in the order of
\* the documents and of the blocks
RECURSIVE CompleteOf(_)
CompleteOf(files) ==
    IF files = <<>> THEN <<>>
    ELSE (IF FileFails(Head(files)) THEN <<>>
          ELSE SelectSeq(Head(files).doc.blocks, Complete))
         \o CompleteOf(Tail(files))

\* C17: the list of cards handed to the Package Builder has exactly one record
\* for every block that is a mapping with a value for every mapped key, over
\* all documents; a bad block or a failing document takes no record of
\* another away; and no exception leaves _main.
C17_AggregatesAllFiles ==
    entry = "_main"
        => /\ main_raised = "none"
           /\ main_pc \in {"package", "done", "raised"}
                 => /\ Len(all_cards) = Len(CompleteOf(md_files))
                    /\ \A i \in DOMAIN all_cards :
                          LET data == CompleteOf(md_files)[i].data
                          IN  /\ all_cards[i].tags =
                                    DictGetDefault(data, "tags", PyList(<<>>))
                              /\ "deck" \in DOMAIN data
                                    => all_cards[i].deck = data["deck"]

\* C20: the id of a deck depends on the name of the model and the name of the
\* deck alone: in a second process execution over the same inputs every deck
\* has the id it had in the first.
C20_StableDeckIds ==
    run = 2 => \A i \in DOMAIN decks, j \in DOMAIN first_decks :
                   decks[i].name = first_decks[j].name
                       => decks[i].id = first_decks[j].id

\* the note the loop has just added for the card at hand
NoteAdded(card) ==
    LET k == CHOOSE i \in DOMAIN decks' : decks'[i].name = card.deck
    IN  decks'[k].notes[Len(decks'[k].notes)]

\* C21: the field values of the note built for a record are one entry for
\* every field of the model, in the order the model declares them: the
\* record's content for the field, the empty string when it has none; the
\* record's fields the model does not declare are left out.
C21_OrderedFields ==
    [][(main_pc = "package" /\ card_idx' = card_idx + 1
            /\ ~note_raises(card_data_list[card_idx + 1]))
          => LET card == card_data_list[card_idx + 1]
                 names == model_def[1].fields
                 note == NoteAdded(card)
             IN  /\ Len(note.fields) = Len(names)
                 /\ \A i \in DOMAIN names :
                       note.fields[i] = IF names[i] \in DOMAIN card.fields
                                        THEN card.fields[names[i]] ELSE <<>>
                 /\ \A name \in DOMAIN card.fields :
                       (\A i \in DOMAIN names : names[i] # name)
                           => \A i \in DOMAIN names :
                                 note.fields[i] = card.fields[name]
                                     => \/ names[i] \in DOMAIN card.fields
                                        \/ card.fields[name] = <<>>]_vars

\* a package is written for a record with the fields Front, Back and
\* SourceFile and a model with the fields Question, Answer and SourceFile
C21_Witness ==
    /\ entry = "generate_anki_package"
    /\ main_pc = "done"
    /\ output_file # <<>>
    /\ model_def[1].fields = <<"Question", "Answer", "SourceFile">>
    /\ \E k \in DOMAIN decks : \E n \in DOMAIN decks[k].notes :
          decks[k].notes[n].fields = <<<<>>, <<>>, <<"test.md">>>>

\* a record whose note genanki refuses: one of its tags holds a space
TagWithSpace(card) ==
    card.tags.t = "list" /\ \E i \in DOMAIN card.tags.v : card.tags.v[i] = "two words"

\* the identity bases of the records among the first n that belong to the
\* deck and whose note can be built, in the order of the list
BasesDue(deck_name, n) ==
    LET Due(card) == card.deck = deck_name /\ ~TagWithSpace(card)
        due == SelectSeq(SubSeq(card_data_list, 1, n), Due)
    IN  [i \in DOMAIN due |-> due[i].guid_basis]

\* the identity bases of the notes of a deck, in the order they were added
BasesOf(deck) == [n \in DOMAIN deck.notes |-> deck.notes[n].guid.guid_for]

\* C22: in generate_anki_package a record whose note cannot be built is
\* dropped alone: every other record, before and after it, is added to its
\* deck, the package is written, and no exception reaches the caller.
C22_FailedNoteDroppedAlone ==
    (entry = "generate_anki_package" /\ main_pc \in {"package", "done", "raised"})
        => /\ main_pc # "raised"
           /\ main_raised = "none"
           /\ \A k \in DOMAIN decks :
                 BasesOf(decks[k]) = BasesDue(decks[k].name, card_idx)
           /\ (main_pc = "done" /\ card_data_list # <<>> /\ write_ok /\ run = 1)
                 => /\ card_idx = Len(card_data_list)
                    /\ output_file # <<>>
                    /\ output_file[1].decks = decks

\* a package is written for three records of which the second could not be
\* made a note: the first and the third are the notes of their deck
C22_Witness ==
    /\ entry = "generate_anki_package"
    /\ main_pc = "done"
    /\ output_file # <<>>
    /\ Len(card_data_list) = 3
    /\ TagWithSpace(card_data_list[2])
    /\ \E k \in DOMAIN decks :
          BasesOf(decks[k]) = <<card_data_list[1].guid_basis, card_data_list[3].guid_basis>>

-----------------------------------------------------------------------------
(* More claims about the Card Extractor *)

\* the complete blocks among those the loop has gone through
CompleteSoFar == SelectSeq(SubSeq(doc.blocks, 1, match_num), Complete)

\* the fields the key "tags" is mapped to
TagsTargets ==
    {model_def[1].yaml_field_map[i][2] :
        i \in {k \in DOMAIN model_def[1].yaml_field_map :
                  model_def[1].yaml_field_map[k][1] = "tags"}}

\* C23: the tags of a block are never put into the fields of its record: the
\* field the key "tags" is mapped to gets no content from it; the record
\* carries the block's tags entry as its tags, the empty list when the block
\* has none; and a block without tags is not skipped for that.
C23_TagsNotInFields ==
    ex_pc \in {"loop", "returned"}
        => /\ Len(cards) = Len(CompleteSoFar)
           /\ \A i \in DOMAIN cards :
                 LET b == CompleteSoFar[i]
                 IN  /\ cards[i].tags = IF "tags" \in DOMAIN b.data THEN b.data["tags"]
                                        ELSE PyList(<<>>)
                     /\ cards[i].fields = RecordAlone(b).fields
                     /\ \A F \in TagsTargets :
                           F \in DOMAIN cards[i].fields
                               => F \in DOMAIN RecordAlone(b).fields

\* a model that maps "tags" to the field Tags, and a document whose first
\* block has tags and whose second has none: two records, the field Tags in
\* neither
C23_Witness ==
    /\ ex_pc = "returned"
    /\ TagsTargets = {"Tags"}
    /\ Len(doc.blocks) = 2
    /\ "tags" \in DOMAIN doc.blocks[1].data
    /\ "tags" \notin DOMAIN doc.blocks[2].data
    /\ Len(cards) = 2
    /\ cards[1].tags = PyList(<<"python">>)
    /\ cards[2].tags = PyList(<<>>)
    /\ "Tags" \notin DOMAIN cards[1].fields

\* the names that are "sourcefile" when their case is ignored
SourceFileNames == {"SourceFile", "Sourcefile", "sourcefile", "SOURCEFILE"}

\* the path of the document below the scan root, as text
PathBelowRoot ==
    RelPathStr(SubSeq(filepath, Len(root_dir) + 1, Len(filepath)))

\* C24: when the model has a field named "sourcefile" in any case, every
\* record of a file carries under that field's name the path of the document
\* relative to the scan root; when it has none, no record has such an entry.
C24_SourceFileField ==
    ex_pc \in {"loop", "returned"}
        => \A i \in DOMAIN cards :
              LET fields == model_def[1].fields
                  named == {k \in DOMAIN fields : fields[k] \in SourceFileNames}
              IN  IF named # {}
                  THEN \E k \in named :
                          /\ fields[k] \in DOMAIN cards[i].fields
                          /\ cards[i].fields[fields[k]] = PathBelowRoot
                  ELSE /\ DOMAIN cards[i].fields \cap SourceFileNames = {}
                       /\ \A F \in DOMAIN cards[i].fields :
                             cards[i].fields[F] # PathBelowRoot

\* a model with the field Sourcefile and a document below a directory of the
\* scan root: its two records carry the path under Sourcefile
C24_Witness ==
    /\ ex_pc = "returned"
    /\ \E k \in DOMAIN model_def[1].fields : model_def[1].fields[k] = "Sourcefile"
    /\ Len(filepath) = Len(root_dir) + 2
    /\ Len(cards) = 2
    /\ \A i \in DOMAIN cards :
          cards[i].fields["Sourcefile"] = <<"py", "/", "basics", ".md">>

-----------------------------------------------------------------------------
(* More claims about the run and the Package Builder *)

\* the records of the document at hand are those of its complete blocks, in
\* the order of the blocks
InFileOrder ==
    (main_pc = "files" /\ ex_pc \in {"loop", "returned"})
        => /\ Len(cards) = Len(CompleteSoFar)
           /\ \A i \in DOMAIN cards :
                 /\ cards[i].fields = RecordAlone(CompleteSoFar[i]).fields
                 /\ cards[i].tags = RecordAlone(CompleteSoFar[i]).tags

\* the notes of every deck are in the order of their records in the list
DeckOrder ==
    main_pc \in {"package", "done"}
        => \A k \in DOMAIN decks :
              BasesOf(decks[k]) = BasesDue(decks[k].name, card_idx)

\* the records of a document are put behind those of the documents before
\* it, in the order find_anki_cards_in_file returned them
AggregateOrder ==
    (main_pc = "files" /\ ex_pc = "returned" /\ ex_pc' = "idle")
        => /\ SubSeq(all_cards', 1, Len(all_cards)) = all_cards
           /\ SubSeq(all_cards', Len(all_cards) + 1, Len(all_cards')) = cards

\* C25: the records of a file are in the order of their blocks in the
\* document, skipped blocks leaving the order of the others as it is; the
\* order is kept in the list handed to the Package Builder and in the order
\* the notes are added to a deck.
C25_OrderPreserved == [](InFileOrder /\ DeckOrder) /\ [][AggregateOrder]_vars

\* a document with a complete block, a block without answer and another
\* complete block, scanned after another document with a record: the deck of
\* the document holds the two notes in the order of the blocks
C25_Witness ==
    /\ entry = "_main"
    /\ main_pc = "done"
    /\ Len(md_files) = 2
    /\ Len(md_files[2].doc.blocks) = 3
    /\ Len(all_cards) = 3
    /\ all_cards[2].tags = PyList(<<"python">>)
    /\ all_cards[3].tags = PyList(<<>>)
    /\ \E k \in DOMAIN decks :
          BasesOf(decks[k]) = <<all_cards[2].guid_basis, all_cards[3].guid_basis>>

-----------------------------------------------------------------------------
(* More claims about the Schema Model *)

\* every error reported carries the message
OnlyErrors(msg) ==
    /\ validation_errors # <<>>
    /\ \A i \in DOMAIN validation_errors : validation_errors[i].msg = msg

\* C26: the checks of a definition are made in the order non-emptiness, id
\* positivity, template references, synthesis of the default map, existence
\* of the mapped fields; a definition that violates several fails with the
\* error of the earliest check it violates, and no later check is made.
C26_ChecksInOrder ==
    schema_pc = "raised"
        => IF model_data.fields = <<>> \/ model_data.templates = <<>>
           THEN OnlyErrors("Fields and templates list cannot be empty")
           ELSE IF model_data.id <= 0
           THEN OnlyErrors("Model ID must be a positive integer")
           ELSE IF AllUndefinedNames # {}
           THEN OnlyErrors("uses undefined fields")
           ELSE IF model_data.yaml_field_map.none /\ Len(model_data.fields) < 2
           THEN OnlyErrors("Cannot set default q/a mapping")
           ELSE OnlyErrors("yaml_field_map contains fields not defined")

-----------------------------------------------------------------------------
(* Claims about the decks, the identity and the media of the records *)

\* a deck name that is a string with text
IsDeckName(value) == value.t = "str" /\ value.v # <<>>

\* C27: the deck of every record is a string that is not empty, also for a
\* block whose deck key holds null or a value that is no string, and the
\* Package Builder makes no deck under a name that is null or no string.
C27_DeckIsString ==
    /\ \A i \in DOMAIN cards : IsDeckName(cards[i].deck)
    /\ \A i \in DOMAIN all_cards : IsDeckName(all_cards[i].deck)
    /\ \A k \in DOMAIN decks : IsDeckName(decks[k].name)

\* C28: two records that differ in the content of the question, in the
\* content of the answer, in the deck or in the relative path of their file
\* never have the same identity basis, also when a content or the deck holds
\* the separator "|".
C28_BasisInjective ==
    main_pc = "files"
        => \A i, j \in DOMAIN cards :
              (\/ MappedContent(cards[i], "q") # MappedContent(cards[j], "q")
               \/ MappedContent(cards[i], "a") # MappedContent(cards[j], "a")
               \/ cards[i].deck # cards[j].deck)
                  => cards[i].guid_basis # cards[j].guid_basis

\* the media paths handed to genanki.Package
MediaHandedOver == {pkg_media_files[i] : i \in DOMAIN pkg_media_files}

\* the file name of a path given as text
BaseName(path_text) == path_text[Len(path_text)]

\* C29: in the media list handed to the package no two different paths have
\* the same file name, so that a src rewritten to a bare file name refers to
\* one media file, also when two documents in different directories use
\* different images of the same name.
C29_MediaNamesUnique ==
    main_pc \in {"package", "done"}
        => \A m1, m2 \in MediaHandedOver :
              m1 # m2 => BaseName(m1) # BaseName(m2)

\* the number of notes of the decks together
RECURSIVE NotesIn(_)
NotesIn(ds) == IF ds = <<>> THEN 0 ELSE Len(Head(ds).notes) + NotesIn(Tail(ds))

\* C30: when generate_anki_package writes a package, every deck of it has a
\* note, and the card count reported is the number of notes added to the
\* decks, also when notes could not be built.
C30_WrittenDecksHaveNotes ==
    output_file # <<>>
        => /\ \A k \in DOMAIN output_file[1].decks :
                 output_file[1].decks[k].notes # <<>>
           /\ output_file[1].card_count = NotesIn(output_file[1].decks)

=============================================================================
